---- MODULE Spec2Model ----
(***************************************************************************)
(* A model of the middle layer of the feature-file compiler (hotconv):     *)
(* the glyph-pattern model of FeatCtx.h, the feature-file driver that      *)
(* FeatCtx declares and the GSUB lookup compiler.  The module holds        *)
(* several specifications, one per component; every one of them starts     *)
(* from the state the constructors leave and exercises the operations of   *)
(* one component.                                                          *)
(***************************************************************************)
EXTENDS Integers, Sequences, FiniteSets, TLC

(***************************************************************************)
(* Bounds of the model.                                                    *)
(***************************************************************************)
MaxClasses == 3

MaxClassSize == 3

(* number of feature-file statements the driver walks *)
MaxStmts == 5

(* number of chain-context rules with an inline replacement *)
MaxChainRules == 3

(* number of named lookups the feature file may define or refer to *)
MaxNamedLkps == 2

(* number of mark-class statements and position rules *)
MaxMarkStmts == 4

(* glyphs of the font that single substitutions are made of: GIDs 1..NumGlyphs *)
NumGlyphs == 4

(* uint16_t: the width of GID, Label and of CrossProductIterator::indices *)
UINT16 == 65536

(* #define FEAT_NAMED_LKP_BEG / FEAT_NAMED_LKP_END / FEAT_ANON_LKP_END *)
FEAT_NAMED_LKP_BEG == 0

FEAT_NAMED_LKP_END == 8191

FEAT_ANON_LKP_BEG == FEAT_NAMED_LKP_END + 1

FEAT_ANON_LKP_END == 32766

LAB_UNDEF == 65535

(* #define REF_LAB (1 << 15) *)
REF_LAB == 32768

(* (L) & REF_LAB and (L) & ~REF_LAB on a 16-bit label *)
RefBit(L) == ((L \div REF_LAB) % 2) * REF_LAB

ClearRef(L) == L - RefBit(L)

IS_REF_LAB(L) == L # LAB_UNDEF /\ RefBit(L) # 0

IS_NAMED_LAB(L) ==
    ClearRef(L) >= FEAT_NAMED_LKP_BEG /\ ClearRef(L) <= FEAT_NAMED_LKP_END

(* the anonymous range without its upper end *)
IS_ANON_LAB_NoEnd(L) == ClearRef(L) >= FEAT_ANON_LKP_BEG

IS_ANON_LAB(L) ==
    ClearRef(L) >= FEAT_ANON_LKP_BEG /\ ClearRef(L) <= FEAT_ANON_LKP_END

(* the label stored as it is *)
SameLabel(L) == L

(* a reference to lookup L: "the original lookup's label with bit 15 set" *)
RefLabel(L) == ClearRef(L) + REF_LAB

(* Tags.  TAG_UNDEF is 0xFFFFFFFF in the code; tags are kept as strings. *)
TAG_UNDEF == "TAG_UNDEF"

DFLT_ == "DFLT"

dflt_ == "dflt"

GSUB_ == "GSUB"

GPOS_ == "GPOS"

ScriptTags == {DFLT_, "latn"}

LanguageTags == {dflt_, "DEU", "NLD"}

FeatureTags == {"liga", "kern"}

TableTags == {GSUB_, GPOS_}

(* lookup types: GSUBSingle and GPOSSingle are both 1, GSUBMultiple and
   GPOSPair both 2 *)
LkpTypes == {1, 2}

(***************************************************************************)
(* GPat::CrossProductIterator                                              *)
(***************************************************************************)
VARIABLES
    classes,    \* std::vector<ClassRec *> classes: the glyphs (GIDs) of each
    indices,    \* std::vector<uint16_t> indices
    first,      \* bool first {true}
    gids,       \* the caller's std::vector<GID> that next() fills
    ret,        \* the last return of next(): "true", "false", "none" before any call
    yielded,    \* the index tuple of the last call that returned true
    sawFalse,   \* next() has returned false
    nTrue,      \* calls that returned true before the first false
    seen,       \* the index tuples those calls yielded
    repeated    \* one of those calls yielded a tuple seen already

cpiVars == <<classes, indices, first, gids, ret, yielded, sawFalse, nTrue,
             seen, repeated>>

(***************************************************************************)
(* FeatCtx: the feature-file driver                                        *)
(***************************************************************************)
VARIABLES
    pc,             \* where the walk is: "top", "feature", "done"
    curr,           \* State curr
    DFLTLkps,       \* std::vector<State> DFLTLkps
    include_dflt,   \* bool include_dflt = true
    acc,            \* the open lookup accumulator, NoAcc when none is open
    lookup,         \* std::vector<LookupInfo> lookup: the lookups compiled
    featReg,        \* lookups registered per (script, language, feature)
    anonLabelCnt,   \* Label anonLabelCnt = FEAT_ANON_LKP_BEG
    had_error,      \* set by an ERROR diagnostic
    nStmts,         \* statements visited so far
    emitted,        \* rules appended to accumulators so far
    dropped,        \* rules RuleAdd returned on without appending them
    currNamedLkp,   \* Label currNamedLkp {LAB_UNDEF}
    begun,          \* accumulators created by LookupBegin so far
    ended           \* accumulators handed to LookupEnd so far

drvVars == <<pc, curr, DFLTLkps, include_dflt, acc, lookup, featReg,
             anonLabelCnt, had_error, nStmts, emitted, dropped, currNamedLkp,
             begun, ended>>

drvRest == <<pc, curr, DFLTLkps, include_dflt, acc, lookup, featReg,
             had_error, nStmts, emitted, dropped, currNamedLkp, begun, ended>>

(***************************************************************************)
(* GSUB: anonymous sub-lookups of chain-context rules and the resolution   *)
(* of labels into lookup indices                                           *)
(***************************************************************************)
VARIABLES
    anonSubtable,   \* std::vector<SubtableInfo> anonSubtable
    namedLkp,       \* std::vector<NamedLkp> namedLkp: the labels defined
    lookupRecs,     \* the label each SubstLookupRecord of a chain rule holds
    lookupList,     \* labels of the lookups of the LookupList, in order
    lookupIndex,    \* the LookupListIndex of each record, once resolved
    cpc,            \* "compile", then "done", "fatalDuplicate" or "fatalRef"
    nChain,         \* chain rules compiled so far
    lastIn          \* the last inline sub-rule and the label it was given

anonVars == <<anonSubtable, namedLkp, lookupRecs, lookupList, lookupIndex,
              cpc, nChain, lastIn>>

anonNoCpc == <<anonSubtable, namedLkp, lookupRecs, lookupList, lookupIndex,
               nChain, lastIn>>

(***************************************************************************)
(* Mark classes (named glyph classes whose glyphs carry anchors)           *)
(***************************************************************************)
VARIABLES
    namedGlyphClasses,  \* std::unordered_map<std::string, ClassRec>
    lastMark,           \* the last addMark: the class named and its outcome
    nMark               \* mark-class statements and position rules so far

markVars == <<namedGlyphClasses, lastMark, nMark>>

(***************************************************************************)
(* The Single-substitution accumulator and its subtable                    *)
(***************************************************************************)
VARIABLES
    singles,        \* std::map<GID, GID> singles of the accumulator
    singleFormat,   \* SubstFormat of the subtable, 0 before it is filled
    singleDelta     \* DeltaGlyphID of a Format 1 subtable

singleVars == <<singles, singleFormat, singleDelta>>

(***************************************************************************)
(* GSUB: the accumulator of a Multiple or Alternate lookup and the loop    *)
(* of MultipleSubst::fill / AlternateSubst::fill                           *)
(***************************************************************************)
VARIABLES
    fpc,            \* "new", "rules", "fill", then "done" or "fatalDuplicate"
    altLkpType,     \* si.lkpType: GSUBMultiple or GSUBAlternate
    altRules,       \* si.rules: target GID and number of replacement glyphs
    fill_i,         \* int i: the first rule of the subtable being gathered
    fill_j,         \* size_t j: the rule the loop is at
    fill_sz,        \* long sz
    fill_nSubs,     \* uint32_t nSubs / numAlts
    altSubtables    \* the subtables AddSubtable was given, in order

multVars == <<fpc, altLkpType, altRules, fill_i, fill_j, fill_sz, fill_nSubs,
              altSubtables>>

(***************************************************************************)
(* The aalt feature: FeatCtx::aalt and the lookup aaltCreate synthesizes   *)
(***************************************************************************)
VARIABLES
    apc,            \* "block", "harvest", then "created"
    aaltFeatures,   \* aalt.features: FeatureRecords in the order listed
    aaltRules,      \* aalt.rules: target GID -> GlyphInfos (<<>> when absent)
    aaltLog,        \* every (feature, target, replacement) harvested, in order
    aaltKind,       \* the lookup type of the aalt lookup, 0 before it is made
    aaltLookup      \* the aalt lookup: target GID -> replacement GIDs

aaltVars == <<apc, aaltFeatures, aaltRules, aaltLog, aaltKind, aaltLookup>>

(***************************************************************************)
(* Labels: a Label, the reference made of it and the label the reference   *)
(* stands for                                                              *)
(***************************************************************************)
VARIABLES
    lpc,            \* "new", "ref", "back"
    label,          \* a Label
    labRef,         \* label | REF_LAB
    labBack         \* labRef & ~REF_LAB

labelVars == <<lpc, label, labRef, labBack>>

(***************************************************************************)
(* AnchorMarkInfo: three anchors and what operator< and operator== gave    *)
(* for them                                                                *)
(***************************************************************************)
VARIABLES
    kpc,            \* "new", "two" (lhs and rhs compared), "three"
    lhs,            \* an AnchorMarkInfo
    rhs,            \* one more
    third,          \* and a third
    less,           \* results of operator<, a function of "lr", "rl", ...
    equal           \* result of lhs == rhs

anchorVars == <<kpc, lhs, rhs, third, less, equal>>

(***************************************************************************)
(* GPat::ClassRec: a class record, and what it held before its last sort   *)
(***************************************************************************)
VARIABLES
    crec,           \* a ClassRec: glyphs (GlyphRecs) and gclass
    crOp,           \* the member function that ran last
    crBefore,       \* crec.glyphs as sort() found them
    crIsGlyph,      \* what is_glyph() returned after crOp
    crIsClass       \* what is_class() returned after crOp

classVars == <<crec, crOp, crBefore, crIsGlyph, crIsClass>>

(***************************************************************************)
(* FeatCtx::TagArray: a set of tags and the last addTag on it              *)
(***************************************************************************)
VARIABLES
    tagArray,       \* TagArray a: std::unordered_set<Tag>
    tagBefore,      \* a as the last addTag found it
    tagArg,         \* Tag t of the last addTag, TAG_UNDEF before any call
    tagRet          \* what it returned

tagVars == <<tagArray, tagBefore, tagArg, tagRet>>

(***************************************************************************)
(* BLND.c: a Pascal string in the input and the reading of it              *)
(***************************************************************************)
VARIABLES
    spc,            \* "new", then "read" after readString, "dumped" after
                    \* dumpString
    input,          \* the bytes of the file
    start,          \* the file position of the string's length byte
    filePos,        \* the file position: bytes consumed so far
    new,            \* the buffer readString returned, <<>> before
    dumped          \* p - base as dumpString returned it

strVars == <<spc, input, start, filePos, new, dumped>>

(***************************************************************************)
(* BLND.c: the BLND table of a font, loaded into memory and freed again    *)
(***************************************************************************)
VARIABLES
    font,           \* the BLND table in the font file, NoTable without one
    BLND,           \* static BLNDTbl *BLND: NULL or the table in memory
    loaded,         \* static int loaded
    heap,           \* the blocks sMemNew returned and sMemFree has not had
    badFree,        \* sMemFree was given a block that is not allocated
    nullDeref,      \* BLND was dereferenced while NULL
    nLoads,         \* the tables read so far
    blndOp,         \* the last call: "BLNDRead", "BLNDFree",
                    \* "BLNDGetNMasters", "none" before any
    blndPre,        \* BLND, loaded and heap as the last call found them
    blndDid,        \* what the last call did, of "read", "alloc", "free",
                    \* "d2wvRead", "d2wvFree"
    blndRet         \* what the last BLNDGetNMasters returned

blndVars == <<font, BLND, loaded, heap, badFree, nullDeref, nLoads, blndOp,
              blndPre, blndDid, blndRet>>

(* the components beside the five above *)
extVars == <<multVars, aaltVars, labelVars, anchorVars, classVars, tagVars,
             strVars, blndVars>>

extNotMult == <<aaltVars, labelVars, anchorVars, classVars, tagVars, strVars,
                blndVars>>

extNotAalt == <<multVars, labelVars, anchorVars, classVars, tagVars, strVars,
                blndVars>>

extNotLabel == <<multVars, aaltVars, anchorVars, classVars, tagVars, strVars,
                 blndVars>>

extNotAnchor == <<multVars, aaltVars, labelVars, classVars, tagVars, strVars,
                  blndVars>>

extNotClass == <<multVars, aaltVars, labelVars, anchorVars, tagVars, strVars,
                 blndVars>>

extNotTag == <<multVars, aaltVars, labelVars, anchorVars, classVars, strVars,
               blndVars>>

extNotStr == <<multVars, aaltVars, labelVars, anchorVars, classVars, tagVars,
               blndVars>>

extNotBlnd == <<multVars, aaltVars, labelVars, anchorVars, classVars,
                tagVars, strVars>>

coreVars == <<cpiVars, drvVars, anonVars, markVars, singleVars>>

vars == <<coreVars, extVars>>

(* The glyph classes a pattern position may hold: a run of s GIDs. *)
GlyphRun(s, off) == [k \in 1..s |-> off + k]

ClassChoices == {GlyphRun(s, off) : s \in 1..MaxClassSize, off \in {0, 10}}

RECURSIVE SeqsUpTo(_, _)
SeqsUpTo(S, n) ==
    IF n = 0 THEN {<<>>}
    ELSE LET shorter == SeqsUpTo(S, n - 1)
         IN  shorter \cup {Append(s, x) : s \in {t \in shorter : Len(t) = n - 1}, x \in S}

(* CrossProductIterator(c): classes(c), indices(classes.size(), 0) *)
CPIConstruct(c) ==
    /\ classes = c
    /\ indices = [k \in 1..Len(c) |-> 0]
    /\ first = TRUE
    /\ gids = <<>>
    /\ ret = "none"
    /\ yielded = <<>>
    /\ sawFalse = FALSE
    /\ nTrue = 0
    /\ seen = {}
    /\ repeated = FALSE

(* The for loop of next(): ++indices[i] < size ? break : indices[i] = 0.
   Position i of the code is position i + 1 here.  The result holds the new
   indices and the value of i when the loop ends. *)
RECURSIVE AdvanceFrom(_, _, _)
AdvanceFrom(cls, idx, i) ==
    IF i > Len(cls) THEN [indices |-> idx, i |-> i]
    ELSE LET inc == (idx[i] + 1) % UINT16
         IN  IF inc < Len(cls[i])
             THEN [indices |-> [idx EXCEPT ![i] = inc], i |-> i]
             ELSE AdvanceFrom(cls, [idx EXCEPT ![i] = 0], i + 1)

(* The same loop run from the last class down to the first: the odometer
   with the last index varying fastest. *)
RECURSIVE AdvanceDownFrom(_, _, _)
AdvanceDownFrom(cls, idx, i) ==
    IF i < 1 THEN [indices |-> idx, i |-> Len(cls) + 1]
    ELSE LET inc == (idx[i] + 1) % UINT16
         IN  IF inc < Len(cls[i])
             THEN [indices |-> [idx EXCEPT ![i] = inc], i |-> i]
             ELSE AdvanceDownFrom(cls, [idx EXCEPT ![i] = 0], i - 1)

AdvanceLastFastest(cls, idx) == AdvanceDownFrom(cls, idx, Len(cls))

(* The loop without its carry: the first index moves on, and the loop
   ends past the last class when the first class is used up. *)
AdvanceFirstOnly(cls, idx) ==
    IF cls = <<>> THEN [indices |-> idx, i |-> 1]
    ELSE IF idx[1] + 1 < Len(cls[1])
    THEN [indices |-> [idx EXCEPT ![1] = idx[1] + 1], i |-> 1]
    ELSE [indices |-> [idx EXCEPT ![1] = 0], i |-> Len(cls) + 1]

Advance(cls, idx) == AdvanceFrom(cls, idx, 1)

(* gids.push_back(classes[i]->glyphs[indices[i]].gid) for every i *)
GidsAt(cls, idx) == [k \in 1..Len(cls) |-> cls[k][idx[k] + 1]]

(* bool next(std::vector<GID> &gids) *)
CPINext ==
    LET adv == IF first THEN [indices |-> indices, i |-> 1]
               ELSE Advance(classes, indices)
        exhausted == ~first /\ adv.i = Len(classes) + 1
    IN  /\ indices' = adv.indices
        /\ UNCHANGED classes
        /\ IF exhausted
           THEN /\ ret' = "false"
                /\ sawFalse' = TRUE
                /\ UNCHANGED <<first, gids, yielded, nTrue, seen, repeated>>
           ELSE /\ first' = FALSE
                /\ gids' = GidsAt(classes, adv.indices)
                /\ yielded' = adv.indices
                /\ ret' = "true"
                /\ UNCHANGED sawFalse
                /\ IF sawFalse
                   THEN UNCHANGED <<nTrue, seen, repeated>>
                   ELSE /\ nTrue' = nTrue + 1
                        /\ seen' = seen \cup {adv.indices}
                        /\ repeated' = (repeated \/ adv.indices \in seen)

(***************************************************************************)
(* The driver: statements of the feature file, visited in order            *)
(***************************************************************************)
NoAcc == [open |-> FALSE]

(* State(): every tag TAG_UNDEF, label LAB_UNDEF *)
StateUndef ==
    [script |-> TAG_UNDEF, language |-> TAG_UNDEF, feature |-> TAG_UNDEF,
     tbl |-> TAG_UNDEF, lkpType |-> 0, lkpFlag |-> 0, markSetIndex |-> 0,
     label |-> LAB_UNDEF]

(* explicit FeatCtx(hotCtx g) with the default member initializers *)
DrvConstruct ==
    /\ pc = "top"
    /\ curr = StateUndef
    /\ DFLTLkps = <<>>
    /\ include_dflt = TRUE
    /\ acc = NoAcc
    /\ lookup = <<>>
    /\ featReg = {}
    /\ anonLabelCnt = FEAT_ANON_LKP_BEG
    /\ had_error = FALSE
    /\ nStmts = 0
    /\ emitted = 0
    /\ dropped = 0
    /\ currNamedLkp = LAB_UNDEF
    /\ begun = 0
    /\ ended = 0

(* one more statement of the parse tree is visited *)
Visit == nStmts < MaxStmts /\ nStmts' = nStmts + 1

(* a lookup of the feature registered under a language system *)
Reg(st, lab) ==
    [script |-> st.script, language |-> st.language, feature |-> st.feature,
     label |-> lab]

(* the subtable LookupEnd compiles an accumulator into *)
Compiled(a) ==
    [tbl |-> a.tbl, lkpType |-> a.lkpType, lkpFlag |-> a.lkpFlag,
     markSetIndex |-> a.markSetIndex, label |-> a.label,
     nRules |-> Len(a.rules)]

(* LookupEnd: if (g->hadError) return; else the accumulator is compiled *)
LookupEnd(a, lk, hadError) ==
    IF a.open /\ ~hadError THEN Append(lk, Compiled(a)) ELSE lk

(* the accumulator a, if one is open, is handed to LookupEnd *)
Ends(a) == ended' = IF a.open THEN ended + 1 ELSE ended

(* LookupBegin: a new accumulator for the state st *)
NewAcc(st) ==
    [open |-> TRUE, script |-> st.script, language |-> st.language,
     feature |-> st.feature, tbl |-> st.tbl, lkpType |-> st.lkpType,
     lkpFlag |-> st.lkpFlag, markSetIndex |-> st.markSetIndex,
     label |-> st.label, rules |-> <<>>]

(* feature FOO { *)
startFeature(tag) ==
    /\ pc = "top"
    /\ Visit
    /\ pc' = "feature"
    /\ curr' = [StateUndef EXCEPT !.script = DFLT_, !.language = dflt_,
                                  !.feature = tag]
    /\ DFLTLkps' = <<>>
    /\ include_dflt' = TRUE
    /\ UNCHANGED <<acc, lookup, featReg, anonLabelCnt, had_error, emitted,
                   dropped, currNamedLkp, begun, ended>>

(* } FOO; : the lookup that is open is closed *)
endFeature ==
    /\ pc = "feature"
    /\ Visit
    /\ pc' = "top"
    /\ lookup' = LookupEnd(acc, lookup, had_error)
    /\ acc' = NoAcc
    /\ curr' = StateUndef
    /\ Ends(acc)
    /\ UNCHANGED <<DFLTLkps, include_dflt, featReg, anonLabelCnt, had_error,
                   emitted, dropped, currNamedLkp, begun>>

(* script S; : close the current lookup, reset the language to dflt *)
scriptStmt(tag) ==
    /\ pc = "feature"
    /\ Visit
    /\ lookup' = LookupEnd(acc, lookup, had_error)
    /\ acc' = NoAcc
    /\ curr' = [curr EXCEPT !.script = tag, !.language = dflt_]
    /\ Ends(acc)
    /\ UNCHANGED <<pc, DFLTLkps, include_dflt, featReg, anonLabelCnt,
                   had_error, emitted, dropped, currNamedLkp, begun>>

(* callLkp: the lookup of state st is referred to from the current language
   system: its label is registered with bit 15 set *)
callLkp(st, cur) == Reg(cur, RefLabel(st.label))

(* callLkp for every lookup of DFLTLkps, whatever includeDFLT says *)
ReplayAlways(includeDFLT, cur, lkps) ==
    {callLkp(lkps[k], cur) : k \in 1..Len(lkps)}

(* includeDFLT: the lookups of the default language system are replayed
   under the current one unless exclude_dflt was given *)
Replay(includeDFLT, cur, lkps) ==
    IF includeDFLT THEN {callLkp(lkps[k], cur) : k \in 1..Len(lkps)} ELSE {}

(* language L [exclude_dflt | include_dflt]; *)
languageStmt(tag, includeDFLT) ==
    /\ pc = "feature"
    /\ Visit
    /\ lookup' = LookupEnd(acc, lookup, had_error)
    /\ acc' = NoAcc
    /\ curr' = [curr EXCEPT !.language = tag]
    /\ include_dflt' = includeDFLT
    /\ featReg' = IF tag # dflt_
                  THEN featReg \cup Replay(includeDFLT, curr', DFLTLkps)
                  ELSE featReg
    /\ Ends(acc)
    /\ UNCHANGED <<pc, DFLTLkps, anonLabelCnt, had_error, emitted, dropped,
                   currNamedLkp, begun>>

(* lookup NAME { with the implicit lookup left open *)
startLookupLeavesOpen ==
    /\ pc = "feature"
    /\ Visit
    /\ Len(namedLkp) < MaxNamedLkps
    /\ pc' = "lookup"
    /\ currNamedLkp' = FEAT_NAMED_LKP_BEG + Len(namedLkp)
    /\ namedLkp' = Append(namedLkp, currNamedLkp')
    /\ UNCHANGED <<curr, DFLTLkps, include_dflt, acc, lookup, featReg,
                   anonLabelCnt, had_error, emitted, dropped, begun, ended>>

(* lookup NAME { inside a feature block: the implicit anonymous lookup
   that is open is closed, then the named lookup is opened under the next
   named label; its accumulator begins with its first rule *)
startLookup ==
    /\ pc = "feature"
    /\ Visit
    /\ Len(namedLkp) < MaxNamedLkps
    /\ pc' = "lookup"
    /\ lookup' = LookupEnd(acc, lookup, had_error)
    /\ acc' = NoAcc
    /\ Ends(acc)
    /\ currNamedLkp' = FEAT_NAMED_LKP_BEG + Len(namedLkp)
    /\ namedLkp' = Append(namedLkp, currNamedLkp')
    /\ UNCHANGED <<curr, DFLTLkps, include_dflt, featReg, anonLabelCnt,
                   had_error, emitted, dropped, begun>>

(* } NAME; : the named lookup is closed *)
endLookup ==
    /\ pc = "lookup"
    /\ Visit
    /\ pc' = "feature"
    /\ lookup' = LookupEnd(acc, lookup, had_error)
    /\ acc' = NoAcc
    /\ Ends(acc)
    /\ currNamedLkp' = LAB_UNDEF
    /\ UNCHANGED <<curr, DFLTLkps, include_dflt, featReg, anonLabelCnt,
                   had_error, emitted, dropped, begun, namedLkp>>

(* the test of step 1 on the lookup type alone *)
SameLookupTypeOnly(a, newTbl, newlkpType) ==
    a.open /\ a.lkpType = newlkpType

(* step 1 of prepRule: a rule of another table or lookup type than the
   accumulator's does not go into it *)
SameLookup(a, newTbl, newlkpType) ==
    a.open /\ a.tbl = newTbl /\ a.lkpType = newlkpType

(* rules reach the accumulator whatever hadError says *)
EmissionNeverOff == FALSE

(* GSUB::RuleAdd: if (g->hadError) return; *)
EmissionOff == had_error

(* prepRule(newTbl, newlkpType, targ, repl); valid is the outcome of the
   validation of targ and repl against the table and type.  The rule is
   handed to RuleAdd, which drops it once hadError is set. *)
prepRule(newTbl, newlkpType, valid) ==
    /\ pc \in {"feature", "lookup"}
    /\ Visit
    /\ LET same == SameLookup(acc, newTbl, newlkpType)
           named == currNamedLkp # LAB_UNDEF
           st == [curr EXCEPT !.tbl = newTbl, !.lkpType = newlkpType,
                              !.label = IF same THEN acc.label
                                        ELSE IF named THEN currNamedLkp
                                        ELSE anonLabelCnt]
           base == IF same THEN acc ELSE NewAcc(st)
           rule == [tbl |-> newTbl, lkpType |-> newlkpType]
       IN  /\ curr' = st
           /\ lookup' = IF same THEN lookup
                        ELSE LookupEnd(acc, lookup, had_error)
           /\ anonLabelCnt' = IF same \/ named THEN anonLabelCnt
                              ELSE anonLabelCnt + 1
           /\ begun' = IF same THEN begun ELSE begun + 1
           /\ IF same THEN UNCHANGED ended ELSE Ends(acc)
           /\ featReg' = IF same THEN featReg
                         ELSE featReg \cup {Reg(st, st.label)}
           /\ DFLTLkps' = IF ~same /\ st.script = DFLT_
                                   /\ st.language = dflt_
                          THEN Append(DFLTLkps, st) ELSE DFLTLkps
           /\ IF ~valid
              THEN /\ acc' = base
                   /\ had_error' = TRUE
                   /\ UNCHANGED <<emitted, dropped>>
              ELSE IF EmissionOff
              THEN /\ acc' = base
                   /\ dropped' = dropped + 1
                   /\ UNCHANGED <<had_error, emitted>>
              ELSE /\ acc' = [base EXCEPT !.rules = Append(@, rule)]
                   /\ emitted' = emitted + 1
                   /\ UNCHANGED <<had_error, dropped>>
    /\ UNCHANGED <<pc, include_dflt, currNamedLkp>>

(* the walk is over *)
fill ==
    /\ pc = "top"
    /\ pc' = "done"
    /\ UNCHANGED <<curr, DFLTLkps, include_dflt, acc, lookup, featReg,
                   anonLabelCnt, had_error, nStmts, emitted, dropped,
                   currNamedLkp, begun, ended>>

(***************************************************************************)
(* GSUB: the lookup compiler.  A pattern is a sequence of positions, each  *)
(* position the sequence of GIDs of its class (nextSeq links positions,    *)
(* nextCl the glyphs of one position).                                     *)
(***************************************************************************)
(* case GSUBSingle / GSUBMultiple / GSUBLigature of LookupEnd *)
GSUBSingle == 1

GSUBMultiple == 2

GSUBLigature == 4

(* GSUB(hotCtx g): no anonymous subtable, no subtable *)
AnonConstruct ==
    /\ anonSubtable = <<>>
    /\ namedLkp = <<>>
    /\ lookupRecs = <<>>
    /\ lookupList = <<>>
    /\ lookupIndex = <<>>
    /\ cpc = "compile"
    /\ nChain = 0
    /\ lastIn = [label |-> LAB_UNDEF, at |-> 0]

(* std::map<GID, GID> singles, held as its set of (key, value) pairs *)
MapHas(m, t) == \E p \in m : p[1] = t

MapAt(m, t) == (CHOOSE p \in m : p[1] = t)[2]

(* std::map::insert: a key that is there keeps its value *)
MapInsert(m, t, r) == IF MapHas(m, t) THEN m ELSE m \cup {<<t, r>>}

(* for (auto [tgid, rgid]: needed) si.singles.insert({tgid, rgid}) *)
MapInsertAll(m, needed) == m \cup {p \in needed : ~MapHas(m, p[1])}

(* r = r->nextCl only while r has a next glyph: a replacement that is one
   glyph is used for every glyph of the target class *)
ReplAt(replCl, k) == replCl[IF k <= Len(replCl) THEN k ELSE Len(replCl)]

(* the for loop of addSubstRule on a GSUBSingle accumulator: a target that
   is there with another replacement is FATAL *)
RECURSIVE addSingles(_, _, _, _)
addSingles(si, targCl, replCl, k) ==
    IF k > Len(targCl) THEN [si |-> si, fatal |-> FALSE]
    ELSE LET t == targCl[k]
             r == ReplAt(replCl, k)
         IN  IF MapHas(si.singles, t) /\ MapAt(si.singles, t) # r
             THEN [si |-> si, fatal |-> TRUE]
             ELSE addSingles([si EXCEPT !.singles = MapInsert(@, t, r)],
                             targCl, replCl, k + 1)

(* featMakeCrossProduct(g, targ, &nSeq): the sequences of the pattern,
   enumerated as CrossProductIterator enumerates them *)
RECURSIVE ProdFrom(_, _, _)
ProdFrom(cls, idx, out) ==
    LET adv == Advance(cls, idx)
    IN  IF adv.i = Len(cls) + 1 THEN out
        ELSE ProdFrom(cls, adv.indices, Append(out, GidsAt(cls, adv.indices)))

featMakeCrossProduct(cls) ==
    LET zero == [k \in 1..Len(cls) |-> 0]
    IN  ProdFrom(cls, zero, <<GidsAt(cls, zero)>>)

(* a ligature rule of an accumulator: one target sequence, one glyph *)
LigRule(t, replGid) == [targ |-> t, repl |-> replGid]

(* void GSUB::addSubstRule(SubtableInfo &si, GNode *targ, GNode *repl) *)
addSubstRule(si, targ, repl) ==
    IF si.lkpType = GSUBSingle
    THEN addSingles(si, targ[1], repl[1], 1)
    ELSE IF si.lkpType = GSUBLigature
    THEN LET prod == featMakeCrossProduct(targ)
         IN  [si |-> [si EXCEPT !.rules =
                         @ \o [n \in 1..Len(prod) |->
                                  LigRule(prod[n], repl[1][1])]],
              fatal |-> FALSE]
    ELSE [si |-> [si EXCEPT !.rules =
                     Append(@, [targ |-> targ, repl |-> repl])],
          fatal |-> FALSE]

(* the first for loop of addSingleToAnonSubtbl: the pairs still needed, or
   not ok when a target is there with another replacement *)
RECURSIVE singlesNeeded(_, _, _, _, _)
singlesNeeded(si, targCl, replCl, k, needed) ==
    IF k > Len(targCl) THEN [ok |-> TRUE, needed |-> needed]
    ELSE LET t == targCl[k]
             r == ReplAt(replCl, k)
         IN  IF MapHas(si.singles, t)
             THEN IF MapAt(si.singles, t) # r
                  THEN [ok |-> FALSE, needed |-> {}]
                  ELSE singlesNeeded(si, targCl, replCl, k + 1, needed)
             ELSE singlesNeeded(si, targCl, replCl, k + 1,
                                MapInsert(needed, t, r))

(* bool GSUB::addSingleToAnonSubtbl(SubtableInfo &si, GNode *targ, GNode *repl) *)
addSingleToAnonSubtbl(si, targ, repl) ==
    LET s == singlesNeeded(si, targ[1], repl[1], 1, {})
    IN  [ok |-> s.ok,
         si |-> IF s.ok THEN [si EXCEPT !.singles = MapInsertAll(@, s.needed)]
                ELSE si]

(* pI and pJ step on while both have a next glyph and the next glyphs are
   the same: the position of the last identical node *)
RECURSIVE LastIdentical(_, _, _)
LastIdentical(a, b, p) ==
    IF p < Len(a) /\ p < Len(b) /\ a[p + 1] = b[p + 1]
    THEN LastIdentical(a, b, p + 1)
    ELSE p

(* no target is taken as a subset of another *)
NeverSubset(t, ruleTarg, p) == FALSE

(* pI->nextSeq == NULL || pJ->nextSeq == NULL: one is a subset of the other *)
OneIsSubset(t, ruleTarg, p) == p = Len(t) \/ p = Len(ruleTarg)

(* the body of the inner loop of addLigatureToAnonSubtbl: sequence t with
   replacement replGid against one rule of the accumulator *)
ligAgainstRule(t, replGid, rule) ==
    IF t[1] # rule.targ[1] THEN "continue"
    ELSE LET p == LastIdentical(t, rule.targ, 1)
         IN  IF p = Len(t) /\ p = Len(rule.targ)
             THEN IF replGid = rule.repl THEN "found" ELSE "return false"
             ELSE IF OneIsSubset(t, rule.targ, p) THEN "return false"
             ELSE "continue"

(* bool GSUB::addLigatureToAnonSubtbl(SubtableInfo &si, GNode *targ, GNode *repl) *)
addLigatureToAnonSubtbl(si, targ, repl) ==
    LET prod == featMakeCrossProduct(targ)
        replGid == repl[1][1]
        Against(t) == {ligAgainstRule(t, replGid, si.rules[k]) :
                          k \in 1..Len(si.rules)}
        NotFound(t) == "found" \notin Against(t)
        toAdd == SelectSeq(prod, NotFound)
    IN  IF \E n \in 1..Len(prod) : "return false" \in Against(prod[n])
        THEN [ok |-> FALSE, si |-> si]
        ELSE [ok |-> TRUE,
              si |-> [si EXCEPT !.rules =
                         @ \o [n \in 1..Len(toAdd) |->
                                  LigRule(toAdd[n], replGid)]]]

(* the lookup type addAnonRule derives from nMarked and repl->nextSeq *)
AnonLkpType(pMarked, repl) ==
    IF Len(pMarked) = 1
    THEN IF Len(repl) > 1 THEN GSUBMultiple ELSE GSUBSingle
    ELSE GSUBLigature

(* the same test without the feature that spawned the accumulator *)
SameSubtableAnyFeature(si, lkpType, cur_si) ==
    /\ si.lkpType = lkpType
    /\ si.lkpFlag = cur_si.lkpFlag
    /\ si.markSetIndex = cur_si.markSetIndex

(* the test addAnonRule makes on anonSubtable.back() *)
SameSubtable(si, lkpType, cur_si) ==
    /\ si.lkpType = lkpType
    /\ si.lkpFlag = cur_si.lkpFlag
    /\ si.markSetIndex = cur_si.markSetIndex
    /\ si.parentFeatTag = cur_si.feature

(* Label getNextAnonLabel(): the next unused anonymous label *)
getNextAnonLabel == anonLabelCnt

(* Label GSUB::addAnonRule(SubtableInfo &cur_si, GNode *pMarked,
   uint32_t nMarked, GNode *repl); nw is the accumulator of the lookup that
   is being compiled, which is cur_si *)
addAnonRule(anon, cur_si, nw, pMarked, repl) ==
    LET lkpType == AnonLkpType(pMarked, repl)
        n == Len(anon)
        match == n > 0 /\ SameSubtable(anon[n], lkpType, cur_si)
        tried == IF match /\ lkpType = GSUBSingle
                 THEN addSingleToAnonSubtbl(anon[n], pMarked, repl)
                 ELSE IF match /\ lkpType = GSUBLigature
                 THEN addLigatureToAnonSubtbl(anon[n], pMarked, repl)
                 ELSE [ok |-> FALSE]
        asi == [script |-> cur_si.script, language |-> cur_si.language,
                lkpType |-> lkpType, lkpFlag |-> cur_si.lkpFlag,
                markSetIndex |-> cur_si.markSetIndex,
                label |-> getNextAnonLabel,
                parentFeatTag |-> nw.feature,
                singles |-> {}, rules |-> <<>>]
        added == addSubstRule(asi, pMarked, repl)
    IN  IF tried.ok
        THEN [anonSubtable |-> [anon EXCEPT ![n] = tried.si],
              label |-> anon[n].label, isNew |-> FALSE, fatal |-> FALSE]
        ELSE [anonSubtable |-> Append(anon, added.si),
              label |-> asi.label, isNew |-> TRUE, fatal |-> added.fatal]

(* ChainSubst::ChainSubst on a rule with an inline replacement
   (sub A B' C by D;): one SubstLookupRecord whose LookupListIndex holds the
   label addAnonRule returns *)
chainInline(cur_si, pMarked, repl) ==
    /\ cpc = "compile"
    /\ nChain < MaxChainRules
    /\ nChain' = nChain + 1
    /\ LET res == addAnonRule(anonSubtable, cur_si, cur_si, pMarked, repl)
       IN  IF res.fatal
           THEN /\ cpc' = "fatalDuplicate"
                /\ lastIn' = [label |-> LAB_UNDEF, at |-> nChain']
                /\ UNCHANGED <<anonSubtable, lookupRecs, anonLabelCnt>>
           ELSE /\ anonSubtable' = res.anonSubtable
                /\ lookupRecs' = Append(lookupRecs, res.label)
                /\ anonLabelCnt' = IF res.isNew THEN anonLabelCnt + 1
                                   ELSE anonLabelCnt
                /\ lastIn' = [label |-> res.label, at |-> nChain',
                              cur_si |-> cur_si, pMarked |-> pMarked,
                              repl |-> repl]
                /\ UNCHANGED cpc
    /\ UNCHANGED <<namedLkp, lookupList, lookupIndex>>

(* lookup NAME { ... } NAME; : named labels are given out in authoring
   order from FEAT_NAMED_LKP_BEG, and the lookup is compiled at its end *)
defineNamedLkp ==
    /\ cpc = "compile"
    /\ Len(namedLkp) < MaxNamedLkps
    /\ LET lab == FEAT_NAMED_LKP_BEG + Len(namedLkp)
       IN  /\ namedLkp' = Append(namedLkp, lab)
           /\ lookupList' = Append(lookupList, lab)
    /\ UNCHANGED <<anonSubtable, lookupRecs, lookupIndex, cpc, nChain,
                   anonLabelCnt, lastIn>>

(* ChainSubst::ChainSubst on a rule with an explicit lookup
   (sub A B' lookup LK C;): slr.LookupListIndex = nextNode->lookupLabels[j] *)
chainExplicit(lab) ==
    /\ cpc = "compile"
    /\ nChain < MaxChainRules
    /\ nChain' = nChain + 1
    /\ lookupRecs' = Append(lookupRecs, lab)
    /\ UNCHANGED <<anonSubtable, namedLkp, lookupList, lookupIndex, cpc,
                   anonLabelCnt, lastIn>>

(* no anonymous accumulator is compiled *)
createNoAnonLookups(anon, hadError) == <<>>

(* every anonymous accumulator compiled a second time *)
createAnonLookupsTwice(anon, hadError) ==
    [k \in 1..Len(anon) |-> anon[k].label]
    \o [k \in 1..Len(anon) |-> anon[k].label]

(* void GSUB::createAnonLookups(): LookupEnd(&si) for every anonymous
   accumulator, which compiles it unless hadError is set; the labels of the
   lookups compiled *)
createAnonLookups(anon, hadError) ==
    IF hadError THEN <<>> ELSE [k \in 1..Len(anon) |-> anon[k].label]

(* a label is defined when a lookup of the list carries it *)
Defined(list, L) == \E k \in 1..Len(list) : list[k] = ClearRef(L)

(* otl.label2LookupIndex: the index of the lookup that label L names;
   indices start at 0 *)
label2LookupIndex(list, L) ==
    (CHOOSE k \in 1..Len(list) : list[k] = ClearRef(L)) - 1

(* otl.checkStandAloneRefs: the labels referred to but not defined *)
checkStandAloneRefs(list, recs) ==
    {k \in 1..Len(recs) : ~Defined(list, recs[k])}

(* void GSUB::Fill(): createAnonLookups, otl.fill, setAnonLookupIndices,
   otl.checkStandAloneRefs *)
Fill ==
    /\ cpc = "compile"
    /\ LET list == lookupList \o createAnonLookups(anonSubtable, had_error)
       IN  /\ lookupList' = list
           /\ IF checkStandAloneRefs(list, lookupRecs) # {}
              THEN /\ cpc' = "fatalRef"
                   /\ UNCHANGED lookupIndex
              ELSE /\ cpc' = "done"
                   /\ lookupIndex' = [k \in 1..Len(lookupRecs) |->
                                        label2LookupIndex(list, lookupRecs[k])]
    /\ UNCHANGED <<anonSubtable, namedLkp, lookupRecs, nChain, anonLabelCnt,
                   lastIn>>

(* the lookups chain rules are compiled in: the fields addAnonRule reads *)
BaseCtx ==
    [script |-> DFLT_, language |-> dflt_, feature |-> "liga",
     lkpFlag |-> 0, markSetIndex |-> 0]

OtherCtxs ==
    {[BaseCtx EXCEPT !.lkpFlag = 8],
     [BaseCtx EXCEPT !.markSetIndex = 1],
     [BaseCtx EXCEPT !.feature = "kern"]}

ChainRule(ctx, pMarked, repl) ==
    [cur_si |-> ctx, pMarked |-> pMarked, repl |-> repl]

(* the marked glyphs and inline replacements of the chain rules *)
ChainRules ==
    LET singleSubs == {ChainRule(BaseCtx, << <<1>> >>, << <<3>> >>),
                       ChainRule(BaseCtx, << <<1>> >>, << <<4>> >>),
                       ChainRule(BaseCtx, << <<1, 2>> >>, << <<3, 4>> >>),
                       ChainRule(BaseCtx, << <<1, 1>> >>, << <<3, 4>> >>)}
        ligatures == {ChainRule(BaseCtx, << <<1>>, <<2>> >>, << <<3>> >>),
                      ChainRule(BaseCtx, << <<1>>, <<2>> >>, << <<4>> >>),
                      ChainRule(BaseCtx, << <<1>>, <<2>>, <<1>> >>, << <<3>> >>),
                      ChainRule(BaseCtx, << <<1>>, <<1, 2>> >>, << <<3>> >>)}
        multiples == {ChainRule(BaseCtx, << <<1>> >>, << <<3>>, <<4>> >>)}
        others == {ChainRule(c, << <<2>> >>, << <<3>> >>) : c \in OtherCtxs}
                  \cup {ChainRule([BaseCtx EXCEPT !.feature = "kern"],
                                  << <<2>>, <<1>> >>, << <<3>> >>)}
    IN  singleSubs \cup ligatures \cup multiples \cup others

(***************************************************************************)
(* Mark classes                                                            *)
(***************************************************************************)
MarkConstruct ==
    /\ namedGlyphClasses = <<>>
    /\ lastMark = [name |-> "", outcome |-> "none", at |-> 0]
    /\ nMark = 0

MarkClassNames == {"@TOP", "@BOT"}

(* ClassRec(): no glyphs, every role bit false *)
ClassRecEmpty == [glyphs |-> <<>>, used_mark_class |-> FALSE]

(* void concat(const ClassRec &other): glyphs.insert(glyphs.end(), ...) *)
concat(cr, other) == [cr EXCEPT !.glyphs = @ \o other.glyphs]

(* the glyph classes a markClass statement may add *)
MarkGlyphs == {<<1>>, <<2>>, <<1, 3>>}

(* a mark class takes glyphs whatever its used_mark_class bit says *)
NeverFrozen(cr) == FALSE

(* the class has been used in a pos statement (can't add new glyphs) *)
Frozen(cr) == cr.used_mark_class

(* markClass <glyphs> <anchor> @NAME; : mark classes accumulate, until the
   class is used in a position rule *)
addMark(name, glyphs) ==
    /\ nMark < MaxMarkStmts
    /\ nMark' = nMark + 1
    /\ LET found == name \in DOMAIN namedGlyphClasses
           cur == IF found THEN namedGlyphClasses[name] ELSE ClassRecEmpty
       IN  IF Frozen(cur)
           THEN /\ had_error' = TRUE
                /\ lastMark' = [name |-> name, outcome |-> "error", at |-> nMark']
                /\ UNCHANGED namedGlyphClasses
           ELSE /\ namedGlyphClasses' =
                      [n \in DOMAIN namedGlyphClasses \cup {name} |->
                          IF n = name
                          THEN concat(cur, [glyphs |-> glyphs])
                          ELSE namedGlyphClasses[n]]
                /\ lastMark' = [name |-> name, outcome |-> "added", at |-> nMark']
                /\ UNCHANGED had_error

(* a position rule refers to mark class name: pos base A <anchor> mark @NAME; *)
usedInPos(name) ==
    /\ nMark < MaxMarkStmts
    /\ nMark' = nMark + 1
    /\ name \in DOMAIN namedGlyphClasses
    /\ namedGlyphClasses' =
          [namedGlyphClasses EXCEPT ![name].used_mark_class = TRUE]
    /\ UNCHANGED <<lastMark, had_error>>

drvNoError == <<pc, curr, DFLTLkps, include_dflt, acc, lookup, featReg,
                anonLabelCnt, nStmts, emitted, dropped, currNamedLkp, begun,
                ended>>

(***************************************************************************)
(* Single substitution: the accumulator nw of a GSUBSingle lookup          *)
(***************************************************************************)
SingleConstruct ==
    /\ singles = {}
    /\ singleFormat = 0
    /\ singleDelta = 0

GIDs == 1..NumGlyphs

(* void GSUB::RuleAdd(GNode *targ, GNode *repl) on a GSUBSingle lookup:
   sub targ by repl; with targ a glyph or a class *)
RuleAdd(targCl, replCl) ==
    /\ cpc = "compile"
    /\ singleFormat = 0
    /\ IF EmissionOff
       THEN UNCHANGED <<singles, cpc>>
       ELSE LET nw == [lkpType |-> GSUBSingle, singles |-> singles,
                       rules |-> <<>>]
                res == addSubstRule(nw, <<targCl>>, <<replCl>>)
            IN  IF res.fatal
                THEN cpc' = "fatalDuplicate" /\ UNCHANGED singles
                ELSE singles' = res.si.singles /\ UNCHANGED cpc
    /\ UNCHANGED <<singleFormat, singleDelta>>

(* the keys of the map in the order the map holds them *)
RECURSIVE SortedTargets(_)
SortedTargets(m) ==
    IF m = {} THEN <<>>
    ELSE LET lo == CHOOSE p \in m : \A q \in m : p[1] <= q[1]
         IN  <<lo>> \o SortedTargets(m \ {lo})

(* the delta of the first pair is compared with that of the last pair *)
LastHasDelta(pairs, k, delta) ==
    pairs[Len(pairs)][2] - pairs[Len(pairs)][1] = delta

(* the for loop of SingleSubst::fill after its first pair: FALSE at the
   first pair whose r - t is not delta *)
RECURSIVE AllHaveDelta(_, _, _)
AllHaveDelta(pairs, k, delta) ==
    IF k > Len(pairs) THEN TRUE
    ELSE IF delta # pairs[k][2] - pairs[k][1] THEN FALSE
    ELSE AllHaveDelta(pairs, k + 1, delta)

(* what long delta may hold when the loop never assigns it *)
UninitDelta == (0 - NumGlyphs)..NumGlyphs

(* GSUB::LookupEnd on a GSUBSingle lookup: SingleSubst::fill unless
   hadError is set.  Format 1 takes delta, Format 2 the replacements. *)
LookupEndSingle ==
    /\ cpc = "compile"
    /\ singleFormat = 0
    /\ LET pairs == SortedTargets(singles)
       IN  IF had_error
           THEN UNCHANGED <<singleFormat, singleDelta>>
           ELSE IF pairs = <<>>
           THEN /\ singleFormat' = 1
                /\ singleDelta' \in UninitDelta
           ELSE LET delta == pairs[1][2] - pairs[1][1]
                IN  IF AllHaveDelta(pairs, 2, delta)
                    THEN singleFormat' = 1 /\ singleDelta' = delta
                    ELSE singleFormat' = 2 /\ singleDelta' = 0
    /\ UNCHANGED <<singles, cpc>>

(* the classes a single substitution rule is made of: a glyph, or two
   glyphs in a class *)
SingleClasses ==
    {<<g>> : g \in GIDs}
    \cup {p \in GIDs \X GIDs : p[2] \in {p[1], p[1] + 1}}

(***************************************************************************)
(* Multiple and Alternate substitution: the fill loop that cuts the sorted *)
(* rules of a lookup into subtables                                        *)
(***************************************************************************)
MaxAltRules == 3

(* AddSubtable calls one fill may make before the model stops following it *)
MaxSubtables == 4

GSUBAlternate == 3

(* the limit of an Offset: if (sizeNew > 0xFFFF) *)
OffsetMax == 65535

(* numbers of replacement glyphs of a rule: few, and near the numbers at
   which one rule or two rules reach the limit *)
ReplCounts == {1, 32759, 32760, 32763}

MultConstruct ==
    /\ fpc = "new"
    /\ altLkpType = 0
    /\ altRules = <<>>
    /\ fill_i = 0
    /\ fill_j = 0
    /\ fill_sz = 0
    /\ fill_nSubs = 0
    /\ altSubtables = <<>>

(* GSUB::LookupBegin for a Multiple or an Alternate lookup *)
altLookupBegin(lkpType) ==
    /\ fpc = "new"
    /\ fpc' = "rules"
    /\ altLkpType' = lkpType
    /\ altRules' = <<>>
    /\ UNCHANGED <<fill_i, fill_j, fill_sz, fill_nSubs, altSubtables>>

(* GSUB::RuleAdd on such a lookup: addSubstRule keeps the rule whole *)
altRuleAdd(targ, n) ==
    /\ fpc = "rules"
    /\ Len(altRules) < MaxAltRules
    /\ IF EmissionOff
       THEN UNCHANGED altRules
       ELSE altRules' = Append(altRules, [targ |-> targ, n |-> n])
    /\ UNCHANGED <<fpc, altLkpType, fill_i, fill_j, fill_sz, fill_nSubs,
                   altSubtables>>

(* the results std::sort may leave: the rules by ascending target, rules of
   one target in any order *)
RECURSIVE SortedByTarg(_, _)
SortedByTarg(rules, left) ==
    IF left = {} THEN {<<>>}
    ELSE UNION {{<<rules[k]>> \o rest : rest \in SortedByTarg(rules, left \ {k})} :
                k \in {m \in left : \A o \in left : rules[m].targ <= rules[o].targ}}

(* the bytes write() puts out for nRules sequences (or alternate sets) of
   nSubs glyphs in all: format, coverage offset, count, an offset per rule,
   and per rule a count and its glyphs *)
size(nRules, nSubs) == 6 + 2 * nRules + 2 * nRules + 2 * nSubs

(* the test that ends a subtable *)
OverflowsLate(sizeNew) == sizeNew > OffsetMax + 1

Overflows(sizeNew) == sizeNew > OffsetMax

(* GSUB::LookupEnd on a Multiple or Alternate lookup, up to the loop of
   fill: nothing is filled when hadError is set *)
altLookupEnd ==
    /\ fpc = "rules"
    /\ IF had_error
       THEN fpc' = "done" /\ UNCHANGED altRules
       ELSE /\ altRules' \in SortedByTarg(altRules, DOMAIN altRules)
            /\ fpc' = IF altRules = <<>> THEN "done" ELSE "fill"
    /\ fill_i' = 0
    /\ fill_j' = 0
    /\ fill_sz' = 0
    /\ fill_nSubs' = 0
    /\ UNCHANGED <<altLkpType, altSubtables>>

(* one turn of the for loop of MultipleSubst::fill / AlternateSubst::fill,
   its j++ included; rule j of the code is altRules[fill_j + 1].  The
   uint32_t count cannot wrap: a rule has fewer than 2^16 glyphs and the
   count is set back to 0 before it passes 2^16. *)
altFillStep ==
    /\ fpc = "fill"
    /\ fill_j < Len(altRules)
    /\ LET rule     == altRules[fill_j + 1]
           nSubsNew == fill_nSubs + rule.n
           sizeNew  == size(fill_j - fill_i + 1, nSubsNew)
       IN  IF fill_j # 0 /\ rule.targ = altRules[fill_j].targ
           THEN /\ fpc' = "fatalDuplicate"
                /\ UNCHANGED <<fill_i, fill_j, fill_sz, fill_nSubs,
                               altSubtables>>
           ELSE IF Overflows(sizeNew)
           THEN /\ Len(altSubtables) < MaxSubtables
                /\ altSubtables' =
                       Append(altSubtables,
                              [beg |-> fill_i, end |-> fill_j - 1,
                               size |-> fill_sz, nSubs |-> fill_nSubs])
                /\ fill_sz' = 0
                /\ fill_nSubs' = 0
                /\ fill_i' = fill_j
                /\ fill_j' = fill_j
                /\ UNCHANGED fpc
           ELSE IF fill_j = Len(altRules) - 1
           THEN /\ altSubtables' =
                       Append(altSubtables,
                              [beg |-> fill_i, end |-> fill_j,
                               size |-> sizeNew, nSubs |-> nSubsNew])
                /\ fill_j' = fill_j + 1
                /\ fpc' = "done"
                /\ UNCHANGED <<fill_i, fill_sz, fill_nSubs>>
           ELSE /\ fill_sz' = sizeNew
                /\ fill_nSubs' = nSubsNew
                /\ fill_j' = fill_j + 1
                /\ UNCHANGED <<fill_i, fpc, altSubtables>>
    /\ UNCHANGED <<altLkpType, altRules>>


(***************************************************************************)
(* The aalt feature                                                        *)
(***************************************************************************)
(* rules harvested before aaltCreate runs *)
MaxHarvest == 3

(* the features a feature file has beside aalt *)
AaltTags == {"smcp", "c2sc"}

(* the glyphs rules substitute, and the glyphs they put in their place *)
AaltTargs == 1..2

AaltAlts == 3..4

AaltConstruct ==
    /\ apc = "block"
    /\ aaltFeatures = <<>>
    /\ aaltRules = [g \in AaltTargs |-> <<>>]
    /\ aaltLog = <<>>
    /\ aaltKind = 0
    /\ aaltLookup = [g \in AaltTargs |-> <<>>]

(* the index of a tag in aalt.features, 0 when it is not listed *)
aaltIndexOf(tag) ==
    IF \E k \in DOMAIN aaltFeatures : aaltFeatures[k].feature = tag
    THEN CHOOSE k \in DOMAIN aaltFeatures : aaltFeatures[k].feature = tag
    ELSE 0

(* void aaltAddFeatureTag(Tag tag): a feature statement in the aalt block *)
aaltAddFeatureTag(tag) ==
    /\ apc = "block"
    /\ IF aaltIndexOf(tag) # 0
       THEN UNCHANGED aaltFeatures
       ELSE aaltFeatures' =
                Append(aaltFeatures, [feature |-> tag, used |-> FALSE])
    /\ UNCHANGED <<apc, aaltRules, aaltLog, aaltKind, aaltLookup>>

(* the aalt block ends: the other features are compiled from here on *)
aaltEndFeature ==
    /\ apc = "block"
    /\ apc' = "harvest"
    /\ UNCHANGED <<aaltFeatures, aaltRules, aaltLog, aaltKind, aaltLookup>>

(* the GlyphInfos of a rule with the replacements of repl added, a
   replacement the rule already has being left as it is *)
RECURSIVE addAlternates(_, _, _)
addAlternates(glyphs, repl, ix) ==
    IF repl = <<>> THEN glyphs
    ELSE addAlternates(
             IF \E k \in DOMAIN glyphs : glyphs[k].rgid = Head(repl)
             THEN glyphs
             ELSE Append(glyphs, [rgid |-> Head(repl), aaltIndex |-> ix]),
             Tail(repl), ix)

(* void aaltAddAlternates(targcr, replcr) for a rule of feature tag: a
   single or alternate substitution of targ met while compiling a feature;
   it is harvested when aalt lists the feature *)
aaltAddAlternates(tag, targ, repl) ==
    /\ apc = "harvest"
    /\ Len(aaltLog) < MaxHarvest
    /\ LET ix == aaltIndexOf(tag)
       IN  IF ix = 0
           THEN UNCHANGED <<aaltFeatures, aaltRules>>
           ELSE /\ aaltFeatures' = [aaltFeatures EXCEPT ![ix].used = TRUE]
                /\ aaltRules' =
                       [aaltRules EXCEPT
                           ![targ] = addAlternates(aaltRules[targ], repl, ix)]
    /\ aaltLog' = Append(aaltLog, [feature |-> tag, targ |-> targ,
                                   repl |-> repl])
    /\ UNCHANGED <<apc, aaltKind, aaltLookup>>

(* the GlyphInfos in the order of GlyphInfo::operator<, those of one
   aaltIndex in the order they have *)
AsHarvested(glyphs, upTo) == glyphs

RECURSIVE SortByAaltIndex(_, _)
SortByAaltIndex(glyphs, upTo) ==
    IF upTo = 0 THEN <<>>
    ELSE SortByAaltIndex(glyphs, upTo - 1)
         \o SelectSeq(glyphs, LAMBDA gi : gi.aaltIndex = upTo)

(* a rule with more than one alternate makes the lookup an Alternate one *)
FirstRuleSingle(rules) ==
    \A g \in AaltTargs :
        (rules[g] # <<>> /\ \A h \in AaltTargs : h < g => rules[h] = <<>>)
            => Len(rules[g]) = 1

EveryRuleSingle(rules) ==
    \A g \in AaltTargs : rules[g] # <<>> => Len(rules[g]) = 1

(* void aaltCreate(): after the last feature, the rules are sorted and
   the aalt lookup is made of them; no lookup without rules *)
aaltCreate ==
    /\ apc = "harvest"
    /\ apc' = "created"
    /\ LET sorted == [g \in AaltTargs |->
                         SortByAaltIndex(aaltRules[g], Len(aaltFeatures))]
       IN  /\ aaltRules' = sorted
           /\ IF \A g \in AaltTargs : sorted[g] = <<>>
              THEN UNCHANGED <<aaltKind, aaltLookup>>
              ELSE /\ aaltKind' = IF EveryRuleSingle(sorted)
                                  THEN GSUBSingle ELSE GSUBAlternate
                   /\ aaltLookup' =
                          [g \in AaltTargs |->
                              [k \in DOMAIN sorted[g] |-> sorted[g][k].rgid]]
    /\ UNCHANGED <<aaltFeatures, aaltLog>>

(* the replacements of a harvested rule: a glyph, or a class of two *)
AaltRepls ==
    {<<a>> : a \in AaltAlts}
    \cup {p \in AaltAlts \X AaltAlts : p[1] # p[2]}

(***************************************************************************)
(* Labels and references to them                                           *)
(***************************************************************************)
(* Label label {LAB_UNDEF} *)
LabelConstruct ==
    /\ lpc = "new"
    /\ label = LAB_UNDEF
    /\ labRef = LAB_UNDEF
    /\ labBack = LAB_UNDEF

(* every value a Label holds *)
Labels == 0..(UINT16 - 1)

(* a lookup is referred to: its label is stored with bit 15 set *)
makeReference ==
    /\ lpc = "new"
    /\ lpc' = "ref"
    /\ labRef' = RefLabel(label)
    /\ UNCHANGED <<label, labBack>>

(* the label a stored reference stands for: (L) & ~REF_LAB *)
referredLabel ==
    /\ lpc = "ref"
    /\ lpc' = "back"
    /\ labBack' = ClearRef(labRef)
    /\ UNCHANGED <<label, labRef>>

(***************************************************************************)
(* AnchorMarkInfo and its comparisons                                      *)
(***************************************************************************)
(* AnchorMarkInfo(): the member initializers *)
AnchorMarkInfo ==
    [format |-> 0, markClassIndex |-> 0, componentIndex |-> 0, x |-> 0,
     y |-> 0, contourpoint |-> 0, markClassName |-> ""]

(* the results of the comparisons not made yet *)
NoLess == [p \in {"ll", "lr", "rl", "rt", "lt"} |-> FALSE]

AnchorConstruct ==
    /\ kpc = "new"
    /\ lhs = AnchorMarkInfo
    /\ rhs = AnchorMarkInfo
    /\ third = AnchorMarkInfo
    /\ less = NoLess
    /\ equal = FALSE

(* anchors: two values of every member but the name *)
Anchors ==
    [format : {1, 2}, markClassIndex : {0, 1}, componentIndex : {0, 1},
     x : {-1, 0}, y : {0, 1}, contourpoint : {0, 1}, markClassName : {""}]

(* the same anchors under any of two mark class names *)
NamedAnchors ==
    {[a EXCEPT !.markClassName = n] : a \in Anchors, n \in {"", "TOP"}}

(* operator< without the comparison of y *)
lessSkippingY(a, b) ==
    IF a.componentIndex # b.componentIndex
    THEN a.componentIndex < b.componentIndex
    ELSE IF a.markClassIndex # b.markClassIndex
    THEN a.markClassIndex < b.markClassIndex
    ELSE IF a.format # b.format THEN a.format < b.format
    ELSE IF a.x # b.x THEN a.x < b.x
    ELSE IF a.format = 2 /\ a.contourpoint # b.contourpoint
    THEN a.contourpoint < b.contourpoint
    ELSE FALSE

(* bool AnchorMarkInfo::operator < (const AnchorMarkInfo &rhs) const *)
operatorLess(a, b) ==
    IF a.componentIndex # b.componentIndex
    THEN a.componentIndex < b.componentIndex
    ELSE IF a.markClassIndex # b.markClassIndex
    THEN a.markClassIndex < b.markClassIndex
    ELSE IF a.format # b.format THEN a.format < b.format
    ELSE IF a.x # b.x THEN a.x < b.x
    ELSE IF a.y # b.y THEN a.y < b.y
    ELSE IF a.format = 2 /\ a.contourpoint # b.contourpoint
    THEN a.contourpoint < b.contourpoint
    ELSE FALSE

(* operator== comparing contourpoint whatever the format *)
equalWithContourpoint(a, b) ==
    /\ a.componentIndex = b.componentIndex
    /\ a.markClassIndex = b.markClassIndex
    /\ a.format = b.format
    /\ a.x = b.x
    /\ a.y = b.y
    /\ a.contourpoint = b.contourpoint

(* operator== comparing the name of the mark class as well *)
equalWithName(a, b) ==
    /\ a.componentIndex = b.componentIndex
    /\ a.markClassIndex = b.markClassIndex
    /\ a.format = b.format
    /\ a.x = b.x
    /\ a.y = b.y
    /\ (a.format # 2 \/ a.contourpoint = b.contourpoint)
    /\ a.markClassName = b.markClassName

(* bool AnchorMarkInfo::operator == (const AnchorMarkInfo &rhs) const *)
operatorEqual(a, b) ==
    /\ a.componentIndex = b.componentIndex
    /\ a.markClassIndex = b.markClassIndex
    /\ a.format = b.format
    /\ a.x = b.x
    /\ a.y = b.y
    /\ (a.format # 2 \/ a.contourpoint = b.contourpoint)

(* lhs < lhs, lhs < rhs, rhs < lhs and lhs == rhs are evaluated *)
compareTwo ==
    /\ kpc = "new"
    /\ kpc' = "two"
    /\ less' = [less EXCEPT !["ll"] = operatorLess(lhs, lhs),
                            !["lr"] = operatorLess(lhs, rhs),
                            !["rl"] = operatorLess(rhs, lhs)]
    /\ equal' = operatorEqual(lhs, rhs)
    /\ UNCHANGED <<lhs, rhs, third>>

(* rhs < t and lhs < t are evaluated for a third anchor t *)
compareThird(t) ==
    /\ kpc = "two"
    /\ kpc' = "three"
    /\ third' = t
    /\ less' = [less EXCEPT !["rt"] = operatorLess(rhs, t),
                            !["lt"] = operatorLess(lhs, t)]
    /\ UNCHANGED <<lhs, rhs, equal>>

(***************************************************************************)
(* GPat::GlyphRec and GPat::ClassRec                                       *)
(***************************************************************************)
(* glyph records one class holds *)
MaxGlyphRecs == 3

(* GIDs of the glyphs of a class, and the anchors they may carry (0: the
   AnchorMarkInfo of a glyph that was given none) *)
ClassGIDs == 1..2

AnchorIds == 0..1

(* explicit GlyphRec(GID g) *)
GlyphRec(g) == [gid |-> g, markClassAnchorInfo |-> 0]

(* ClassRec(): no glyphs, every flag false *)
ClassRec == [glyphs |-> <<>>, gclass |-> FALSE]

(* bool is_glyph() const, without the test of gclass *)
has_one_glyph(c) == Len(c.glyphs) = 1

(* bool is_glyph() const *)
is_glyph(c) == Len(c.glyphs) = 1 /\ ~c.gclass

(* bool is_multi_class() const *)
is_multi_class(c) == Len(c.glyphs) > 1

(* bool is_class() const *)
is_class(c) == is_multi_class(c) \/ c.gclass

(* the class record after a member function, what is_glyph() and
   is_class() say of it, and for sort() the glyphs it was given *)
Becomes(becomes, op) ==
    /\ crec' = becomes
    /\ crOp' = op
    /\ crBefore' = IF op = "sort" THEN crec.glyphs ELSE <<>>
    /\ crIsGlyph' = is_glyph(becomes)
    /\ crIsClass' = is_class(becomes)

ClassConstruct ==
    /\ crec = ClassRec
    /\ crOp = "ClassRec"
    /\ crBefore = <<>>
    /\ crIsGlyph = is_glyph(ClassRec)
    /\ crIsClass = is_class(ClassRec)

(* the class records a class record is copied from or concatenated with *)
RECURSIVE GlyphRecSeqs(_)
GlyphRecSeqs(n) ==
    IF n = 0 THEN {<<>>}
    ELSE GlyphRecSeqs(n - 1)
         \cup {Append(s, [gid |-> g, markClassAnchorInfo |-> a]) :
               s \in {t \in GlyphRecSeqs(n - 1) : Len(t) = n - 1},
               g \in ClassGIDs, a \in AnchorIds}

OtherClassRecs ==
    {[glyphs |-> s, gclass |-> b] : s \in GlyphRecSeqs(2), b \in BOOLEAN}

(* explicit ClassRec(GID gid) *)
ClassRecOfGID(gid) ==
    /\ Becomes([ClassRec EXCEPT !.glyphs = <<GlyphRec(gid)>>], "ClassRec(GID)")

(* ClassRec(const ClassRec &o), ClassRec(ClassRec &&o), operator= *)
ClassRecCopy(o) ==
    /\ Becomes([glyphs |-> o.glyphs, gclass |-> o.gclass], "copy")

(* void reset() *)
ClassRecReset ==
    /\ Becomes([glyphs |-> <<>>, gclass |-> FALSE], "reset")

(* void addGlyph(GID gid) *)
addGlyph(gid) ==
    /\ Len(crec.glyphs) < MaxGlyphRecs
    /\ Becomes([crec EXCEPT !.glyphs = Append(@, GlyphRec(gid))], "addGlyph")

(* glyphs.back().markClassAnchorInfo is given an anchor, as for a glyph of
   a mark class *)
setAnchorInfo(a) ==
    /\ crec.glyphs # <<>>
    /\ Becomes([crec EXCEPT !.glyphs[Len(crec.glyphs)].markClassAnchorInfo = a],
               "anchor")

(* gclass is set: the element was written as a class *)
setGclass ==
    /\ Becomes([crec EXCEPT !.gclass = TRUE], "gclass")

(* void concat(const ClassRec &other) *)
ClassRecConcat(other) ==
    /\ Len(crec.glyphs) + Len(other.glyphs) <= MaxGlyphRecs
    /\ Becomes(concat(crec, other), "concat")

(* what std::sort may leave with GlyphRec::operator<: the records by
   ascending gid, those of one gid in any order *)
RECURSIVE stdSort(_, _)
stdSort(glyphs, left) ==
    IF left = {} THEN {<<>>}
    ELSE UNION {{<<glyphs[k]>> \o rest : rest \in stdSort(glyphs, left \ {k})} :
                k \in {m \in left : \A o \in left : glyphs[m].gid <= glyphs[o].gid}}

(* void sort() *)
ClassRecSort ==
    \E sorted \in stdSort(crec.glyphs, DOMAIN crec.glyphs) :
       Becomes([crec EXCEPT !.glyphs = sorted], "sort")

(***************************************************************************)
(* FeatCtx::addTag                                                         *)
(***************************************************************************)
(* TagArray script, language, feature, table: empty *)
TagConstruct ==
    /\ tagArray = {}
    /\ tagBefore = {}
    /\ tagArg = TAG_UNDEF
    /\ tagRet = FALSE

(* the tags of a feature file *)
Tags == ScriptTags \cup LanguageTags \cup FeatureTags \cup TableTags

(* inline bool addTag(TagArray &a, Tag t): false when t is not found in
   a; a.emplace(t) and true otherwise *)
addTag(t) ==
    /\ tagBefore' = tagArray
    /\ tagArg' = t
    /\ IF t \notin tagArray
       THEN /\ tagRet' = FALSE
            /\ UNCHANGED tagArray
       ELSE /\ tagArray' = tagArray \cup {t}
            /\ tagRet' = TRUE

(***************************************************************************)
(* BLND.c: readString, dumpString                                          *)
(***************************************************************************)
(* the bytes of the file before the string: up to MaxLead *)
MaxLead == 1

(* uint8_t length: the values of a byte are 0 .. UINT8 - 1 *)
UINT8 == 256

(* the bytes of a Pascal string of n characters: the k-th character *)
CharAt(n, k) == (n + 7 * k) % UINT8

(* a file holding lead bytes, then a Pascal string of n characters (its
   length byte first), padded with a byte when 1 + n is odd, then the
   byte 255 that follows the string *)
FileWith(lead, n) ==
    [k \in 1..lead |-> 254] \o <<n>> \o [k \in 1..n |-> CharAt(n, k)]
        \o (IF n % 2 = 0 THEN <<0>> ELSE <<>>) \o <<255, 255>>

(* no string read yet *)
StrConstruct ==
    /\ spc = "new"
    /\ input = FileWith(0, 1)
    /\ start = 0
    /\ filePos = 0
    /\ new = <<>>
    /\ dumped = 0

(* length & 1: the pad on the odd lengths *)
And1(length) == length % 2

(* ~length & 1 on the int a uint8_t promotes to: 1 when bit 0 of length
   is clear *)
NotAnd1(length) == 1 - (length % 2)

(* IN1(b) for a byte: the byte at the file position, which moves on *)
IN1(file, p) == [val |-> file[p + 1], pos |-> p + 1]

(* IN_BYTES(n, buf): n bytes from the file position on *)
IN_BYTES(file, p, n) ==
    [val |-> [k \in 1..n |-> file[p + k]], pos |-> p + n]

(* static uint8_t *readString(void): the buffer and the file position
   after it *)
readString(file, p) ==
    LET length == IN1(file, p)
        bytes == IN_BYTES(file, length.pos, length.val)
        terminated == bytes.val \o <<0>>
        after == IF NotAnd1(length.val) # 0
                 THEN IN1(file, bytes.pos).pos
                 ELSE bytes.pos
    IN [new |-> terminated, pos |-> after]

(* a call of readString at the file position *)
readStringCall ==
    /\ spc = "new"
    /\ LET r == readString(input, filePos)
       IN /\ new' = r.new
          /\ filePos' = r.pos
    /\ spc' = "read"
    /\ UNCHANGED <<input, start, dumped>>

(* static uint8_t *dumpString(uint8_t *p, uint8_t *base, int level): the
   pointer past the string at p, with the file read into memory at 0 *)
dumpString(file, p) ==
    LET length == file[p + 1]
    IN p + 1 + length + NotAnd1(length)

(* a call of dumpString on the string readString consumed *)
dumpStringCall ==
    /\ spc = "read"
    /\ dumped' = dumpString(input, start)
    /\ spc' = "dumped"
    /\ UNCHANGED <<input, start, filePos, new>>

(***************************************************************************)
(* BLND.c: BLNDRead, BLNDFree, BLNDGetNMasters                             *)
(***************************************************************************)
(* the axes, styles and primary instances of a table, and the tables read
   in one run: up to these *)
MaxAxes == 2

MaxStyles == 1

MaxInstances == 1

MaxLoads == 2

(* MAX_UINT16: a d2wv subroutine number that stands for no subroutine *)
MAX_UINT16 == UINT16 - 1

(* the values of AxisInfo.nMaps, of BLNDTbl.nMasters, of a subroutine
   number and of d2wvOffset in a table *)
MapCounts == {2, 3}

MasterCounts == {1, 2}

SubrNums == {0, MAX_UINT16}

D2wvOffsets == {0, 40}

(* a font without a BLND table; the null pointer; no block *)
NoTable == [version |-> 0]

NULL == [load |-> 0]

NoBlock == <<"NULL", 0, 0>>

(* the block of one sMemNew call: what it is for, of which axis, style or
   instance (0 for the table's own), in which load *)
Block(name, i, k) == <<name, i, k>>

(* an axis information record of the file: with FLAG_MAP a coordinate map
   of nMaps entries follows the three strings *)
AxisInfos ==
    {[flags |-> {}, nMaps |-> 0]}
        \cup {[flags |-> {"FLAG_MAP"}, nMaps |-> n] : n \in MapCounts}

(* the BLND tables: a table of version 3 carries d2wvOffset and, where
   that is not 0, the d2wv header with its two subroutine numbers *)
BLNDTables ==
    LET common == [axes : SeqsUpTo(AxisInfos, MaxAxes),
                   nMasters : MasterCounts,
                   nStyles : 0..MaxStyles,
                   nInstances : 0..MaxInstances]
        With(c, v, off, cdv, ndv) ==
            [version |-> v, axes |-> c.axes, nMasters |-> c.nMasters,
             nStyles |-> c.nStyles, nInstances |-> c.nInstances,
             d2wvOffset |-> off, CDVNum |-> cdv, NDVNum |-> ndv]
    IN {With(c, 2, 0, MAX_UINT16, MAX_UINT16) : c \in common}
         \cup {With(c, 3, 0, MAX_UINT16, MAX_UINT16) : c \in common}
         \cup {With(c, 3, 40, cdv, ndv) :
                  c \in common, cdv \in SubrNums, ndv \in SubrNums}

(* what the members d2wvOffset, d2wv.CDVNum and d2wv.NDVNum hold after
   BLNDRead of the table tbl where nothing of the table was read into
   them.  A table of version 2 or lower leaves d2wvOffset as sMemNew gave
   it: the block is not known to be cleared, so 0 or not, and where it is
   not 0 the header is read from wherever that offset leads. *)
Uninitialized(tbl) ==
    IF tbl.version > 2
    THEN {[d2wvOffset |-> 0, CDVNum |-> MAX_UINT16, NDVNum |-> MAX_UINT16]}
    ELSE {[d2wvOffset |-> 0, CDVNum |-> MAX_UINT16, NDVNum |-> MAX_UINT16]}
           \cup [d2wvOffset : {1}, CDVNum : SubrNums, NDVNum : SubrNums]

(* static BLNDTbl *BLND = NULL; static int loaded = 0; *)
BLNDConstruct ==
    /\ font = NoTable
    /\ BLND = NULL
    /\ loaded = 0
    /\ heap = {}
    /\ badFree = FALSE
    /\ nullDeref = FALSE
    /\ nLoads = 0
    /\ blndOp = "none"
    /\ blndPre = [BLND |-> NULL, loaded |-> 0, heap |-> {}]
    /\ blndDid = {}
    /\ blndRet = 0

(* a call that starts now: what it finds *)
Pre == [BLND |-> BLND, loaded |-> loaded, heap |-> heap]

(* a test that never finds a table loaded *)
IsNotLoaded(l) == FALSE

(* if (loaded) *)
IsLoaded(l) == l # 0

(* readD2WVSubr(num, length): a new block unless num is MAX_UINT16 *)
readD2WVSubr(num, ptr) == IF num # MAX_UINT16 THEN ptr ELSE NoBlock

(* the body of BLNDRead past `if (loaded) return;` for the table tbl, as
   load k, with un in the members nothing assigns: the table in memory,
   the blocks allocated and whether the d2wv header was read *)
ReadTable(tbl, k, un) ==
    LET nAxes == Len(tbl.axes)
        d2wvOffset == IF tbl.version > 2 THEN tbl.d2wvOffset
                      ELSE un.d2wvOffset
        CDVNum == IF tbl.version > 2 THEN tbl.CDVNum ELSE un.CDVNum
        NDVNum == IF tbl.version > 2 THEN tbl.NDVNum ELSE un.NDVNum
        hasMap(i) == "FLAG_MAP" \in tbl.axes[i].flags
        axisInfo == [i \in 1..nAxes |->
                        [flags |-> tbl.axes[i].flags,
                         nMaps |-> IF hasMap(i) THEN tbl.axes[i].nMaps ELSE 0,
                         map |-> IF hasMap(i) THEN Block("map", i, k)
                                 ELSE NoBlock]]
        CDVSubr == IF d2wvOffset # 0
                   THEN readD2WVSubr(CDVNum, Block("CDVSubr", 0, k))
                   ELSE NoBlock
        NDVSubr == IF d2wvOffset # 0
                   THEN readD2WVSubr(NDVNum, Block("NDVSubr", 0, k))
                   ELSE NoBlock
    IN [BLND |-> [load |-> k, version |-> tbl.version, nAxes |-> nAxes,
                  nMasters |-> tbl.nMasters, axisInfo |-> axisInfo,
                  nStyles |-> tbl.nStyles, nInstances |-> tbl.nInstances,
                  d2wvOffset |-> d2wvOffset,
                  CDVSubr |-> CDVSubr, NDVSubr |-> NDVSubr],
        allocs |->
            {Block("BLND", 0, k), Block("axisOffset", 0, k),
             Block("axisInfo", 0, k), Block("masterNames", 0, k),
             Block("style", 0, k), Block("instance", 0, k),
             Block("instanceNames", 0, k)}
              \cup {Block("type", i, k) : i \in 1..nAxes}
              \cup {Block("longLabel", i, k) : i \in 1..nAxes}
              \cup {Block("shortLabel", i, k) : i \in 1..nAxes}
              \cup {Block("map", i, k) : i \in {j \in 1..nAxes : hasMap(j)}}
              \cup {Block("delta", i, k) : i \in 1..tbl.nStyles}
              \cup {Block("coord", i, k) : i \in 1..tbl.nInstances}
              \cup ({CDVSubr, NDVSubr} \ {NoBlock}),
        d2wv |-> d2wvOffset # 0]

(* the effect of BLNDRead(start, length) on BLND, loaded, heap and nLoads,
   and what it did *)
Read(un) ==
    IF IsLoaded(loaded)
    THEN /\ UNCHANGED <<BLND, loaded, heap, nLoads>>
         /\ blndDid' = {}
    ELSE LET r == ReadTable(font, nLoads + 1, un)
         IN /\ BLND' = r.BLND
            /\ heap' = heap \cup r.allocs
            /\ loaded' = 1
            /\ nLoads' = nLoads + 1
            /\ blndDid' = {"read", "alloc"}
                            \cup (IF r.d2wv THEN {"d2wvRead"} ELSE {})

(* void BLNDRead(int32_t start, uint32_t length), called on the BLND table
   of the font *)
BLNDRead ==
    /\ font # NoTable
    /\ IsLoaded(loaded) \/ nLoads < MaxLoads
    /\ \E un \in Uninitialized(font) : Read(un)
    /\ blndOp' = "BLNDRead"
    /\ blndPre' = Pre
    /\ UNCHANGED <<font, badFree, nullDeref, blndRet>>

(* sMemFree(ptr) on the heap m.heap *)
sMemFree(m, ptr) ==
    IF ptr \in m.heap
    THEN [heap |-> m.heap \ {ptr}, bad |-> m.bad]
    ELSE [heap |-> m.heap, bad |-> TRUE]

(* the calls sMemFree(ptrs[1]), sMemFree(ptrs[2]), ... in this order *)
RECURSIVE sMemFreeEach(_, _)
sMemFreeEach(m, ptrs) ==
    IF ptrs = <<>> THEN m
    ELSE sMemFreeEach(sMemFree(m, Head(ptrs)), Tail(ptrs))

(* the loop over the axes in BLNDFree, from axis i on: the three strings
   of each, and its map if (info->nMaps > 2) *)
RECURSIVE FreeAxisInfo(_, _)
FreeAxisInfo(B, i) ==
    IF i > B.nAxes THEN <<>>
    ELSE <<Block("type", i, B.load), Block("longLabel", i, B.load),
           Block("shortLabel", i, B.load)>>
           \o (IF B.axisInfo[i].nMaps > 2 THEN <<B.axisInfo[i].map>>
               ELSE <<>>)
           \o FreeAxisInfo(B, i + 1)

(* the d2wv subroutines BLNDFree frees *)
FreeD2wv(B) ==
    IF B.d2wvOffset # 0
    THEN (IF B.CDVSubr # NoBlock THEN <<B.CDVSubr>> ELSE <<>>)
           \o (IF B.NDVSubr # NoBlock THEN <<B.NDVSubr>> ELSE <<>>)
    ELSE <<>>

(* the blocks BLNDFree hands to sMemFree, in its order *)
Frees(B) ==
    <<Block("instanceNames", 0, B.load)>>
        \o [i \in 1..B.nInstances |-> Block("coord", i, B.load)]
        \o <<Block("instance", 0, B.load)>>
        \o [i \in 1..B.nStyles |-> Block("delta", i, B.load)]
        \o <<Block("style", 0, B.load), Block("masterNames", 0, B.load)>>
        \o FreeAxisInfo(B, 1)
        \o <<Block("axisInfo", 0, B.load), Block("axisOffset", 0, B.load)>>
        \o FreeD2wv(B)
        \o <<Block("BLND", 0, B.load)>>

(* the end of BLNDFree with the pointer left as it is *)
BLNDFreeEndDangling ==
    /\ BLND' = BLND
    /\ loaded' = 0

(* BLND = NULL; loaded = 0; *)
BLNDFreeEnd ==
    /\ BLND' = NULL
    /\ loaded' = 0

(* void BLNDFree(void) *)
BLNDFree ==
    /\ IF ~IsLoaded(loaded)
       THEN /\ UNCHANGED <<BLND, loaded, heap, badFree, nullDeref>>
            /\ blndDid' = {}
       ELSE IF BLND = NULL
       THEN /\ nullDeref' = TRUE
            /\ UNCHANGED <<BLND, loaded, heap, badFree>>
            /\ blndDid' = {}
       ELSE LET m == sMemFreeEach([heap |-> heap, bad |-> badFree],
                                  Frees(BLND))
            IN /\ heap' = m.heap
               /\ badFree' = m.bad
               /\ BLNDFreeEnd
               /\ blndDid' = {"free"} \cup (IF FreeD2wv(BLND) # <<>>
                                            THEN {"d2wvFree"} ELSE {})
               /\ UNCHANGED nullDeref
    /\ blndOp' = "BLNDFree"
    /\ blndPre' = Pre
    /\ UNCHANGED <<font, nLoads, blndRet>>

(* what BLNDGetNMasters returns: 1 when the table could not be read, the
   table's nMasters otherwise; and the same with 0 for 1 *)
NMastersOrZero(failed, B) == IF failed THEN 0 ELSE B.nMasters

NMasters(failed, B) == IF failed THEN 1 ELSE B.nMasters

(* int BLNDGetNMasters(void).  sfntReadTable(BLND_) returns nonzero for a
   font without the table and changes nothing; for a font with the table
   it calls BLNDRead on it and returns 0. *)
BLNDGetNMasters ==
    /\ IsLoaded(loaded) \/ font = NoTable \/ nLoads < MaxLoads
    /\ IF ~IsLoaded(loaded) /\ font = NoTable
       THEN /\ blndRet' = NMasters(TRUE, BLND)
            /\ blndDid' = {}
            /\ UNCHANGED <<BLND, loaded, heap, nLoads, nullDeref>>
       ELSE /\ \E un \in Uninitialized(font) : Read(un)
            /\ IF BLND' = NULL
               THEN /\ nullDeref' = TRUE
                    /\ blndRet' = 0
               ELSE /\ blndRet' = NMasters(FALSE, BLND')
                    /\ UNCHANGED nullDeref
    /\ blndOp' = "BLNDGetNMasters"
    /\ blndPre' = Pre
    /\ UNCHANGED <<font, badFree>>

(* every component as constructed, the five of coreVars and the others *)
CoreConstruct ==
    /\ CPIConstruct(<<>>) /\ DrvConstruct /\ AnonConstruct /\ MarkConstruct
    /\ SingleConstruct

ExtConstruct ==
    /\ MultConstruct /\ AaltConstruct /\ LabelConstruct /\ AnchorConstruct
    /\ ClassConstruct /\ TagConstruct /\ StrConstruct /\ BLNDConstruct

(***************************************************************************)
(* Specifications                                                          *)
(***************************************************************************)
InitCPI ==
    /\ \E c \in SeqsUpTo(ClassChoices, MaxClasses) : CPIConstruct(c)
    /\ DrvConstruct /\ AnonConstruct /\ MarkConstruct /\ SingleConstruct
    /\ ExtConstruct

NextCPI ==
    CPINext /\ UNCHANGED <<drvVars, anonVars, markVars, singleVars, extVars>>

SpecCPI == InitCPI /\ [][NextCPI]_vars

Init ==
    /\ DrvConstruct
    /\ CPIConstruct(<<>>) /\ AnonConstruct /\ MarkConstruct /\ SingleConstruct
    /\ ExtConstruct

Statement ==
    \/ \E tag \in FeatureTags : startFeature(tag)
    \/ endFeature
    \/ \E tag \in ScriptTags : scriptStmt(tag)
    \/ \E tag \in LanguageTags, inc \in BOOLEAN : languageStmt(tag, inc)
    \/ \E t \in TableTags, lt \in LkpTypes, valid \in BOOLEAN :
          prepRule(t, lt, valid)

otherThanDrv == <<cpiVars, anonVars, markVars, singleVars, extVars>>

Next ==
    \/ \E tag \in FeatureTags : startFeature(tag) /\ UNCHANGED otherThanDrv
    \/ endFeature /\ UNCHANGED otherThanDrv
    \/ \E tag \in ScriptTags : scriptStmt(tag) /\ UNCHANGED otherThanDrv
    \/ \E tag \in LanguageTags, inc \in BOOLEAN :
          languageStmt(tag, inc) /\ UNCHANGED otherThanDrv
    \/ \E t \in TableTags, lt \in LkpTypes, valid \in BOOLEAN :
          prepRule(t, lt, valid) /\ UNCHANGED otherThanDrv
    \/ fill /\ UNCHANGED otherThanDrv

Spec == Init /\ [][Next]_vars

(* the driver with the lookup blocks of a feature *)
otherThanLkp ==
    <<cpiVars, anonSubtable, lookupRecs, lookupList, lookupIndex, cpc,
      nChain, lastIn, markVars, singleVars, extVars>>

NextLkp ==
    \/ \E tag \in FeatureTags : startFeature(tag) /\ UNCHANGED otherThanDrv
    \/ endFeature /\ UNCHANGED otherThanDrv
    \/ \E tag \in ScriptTags : scriptStmt(tag) /\ UNCHANGED otherThanDrv
    \/ \E tag \in LanguageTags, inc \in BOOLEAN :
          languageStmt(tag, inc) /\ UNCHANGED otherThanDrv
    \/ \E t \in TableTags, lt \in LkpTypes, valid \in BOOLEAN :
          prepRule(t, lt, valid) /\ UNCHANGED otherThanDrv
    \/ startLookup /\ UNCHANGED otherThanLkp
    \/ endLookup /\ UNCHANGED otherThanLkp
    \/ fill /\ UNCHANGED otherThanDrv

SpecLkp == Init /\ [][NextLkp]_vars

InitAnon ==
    /\ AnonConstruct
    /\ DrvConstruct /\ CPIConstruct(<<>>) /\ MarkConstruct /\ SingleConstruct
    /\ ExtConstruct

NextAnon ==
    \/ \E in \in ChainRules :
          chainInline(in.cur_si, in.pMarked, in.repl)
          /\ UNCHANGED <<cpiVars, drvRest, markVars, singleVars, extVars>>
    \/ defineNamedLkp /\ UNCHANGED <<cpiVars, drvRest, markVars, singleVars, extVars>>
    \/ \E lab \in 0..(MaxNamedLkps - 1) :
          chainExplicit(lab)
          /\ UNCHANGED <<cpiVars, drvRest, markVars, singleVars, extVars>>
    \/ Fill /\ UNCHANGED <<cpiVars, drvRest, markVars, singleVars, extVars>>

SpecAnon == InitAnon /\ [][NextAnon]_vars

InitMark ==
    /\ MarkConstruct
    /\ DrvConstruct /\ CPIConstruct(<<>>) /\ AnonConstruct /\ SingleConstruct
    /\ ExtConstruct

NextMark ==
    \/ \E name \in MarkClassNames, g \in MarkGlyphs :
          addMark(name, g)
          /\ UNCHANGED <<cpiVars, drvNoError, anonVars, singleVars, extVars>>
    \/ \E name \in MarkClassNames :
          usedInPos(name)
          /\ UNCHANGED <<cpiVars, drvNoError, anonVars, singleVars, extVars>>

SpecMark == InitMark /\ [][NextMark]_vars

InitSingle ==
    /\ SingleConstruct
    /\ DrvConstruct /\ CPIConstruct(<<>>) /\ AnonConstruct /\ MarkConstruct
    /\ ExtConstruct

NextSingle ==
    \/ \E t \in SingleClasses, r \in SingleClasses :
          /\ Len(r) \in {1, Len(t)}
          /\ RuleAdd(t, r)
          /\ UNCHANGED <<cpiVars, drvVars, anonNoCpc, markVars, extVars>>
    \/ LookupEndSingle /\ UNCHANGED <<cpiVars, drvVars, anonNoCpc, markVars, extVars>>

SpecSingle == InitSingle /\ [][NextSingle]_vars

InitMult ==
    /\ CoreConstruct
    /\ ExtConstruct

NextMult ==
    \/ \E t \in {GSUBMultiple, GSUBAlternate} :
          altLookupBegin(t) /\ UNCHANGED <<coreVars, extNotMult>>
    \/ \E g \in GIDs, n \in ReplCounts :
          altRuleAdd(g, n) /\ UNCHANGED <<coreVars, extNotMult>>
    \/ altLookupEnd /\ UNCHANGED <<coreVars, extNotMult>>
    \/ altFillStep /\ UNCHANGED <<coreVars, extNotMult>>

SpecMult == InitMult /\ [][NextMult]_vars

InitAalt ==
    /\ CoreConstruct
    /\ ExtConstruct

NextAalt ==
    \/ \E tag \in AaltTags :
          aaltAddFeatureTag(tag) /\ UNCHANGED <<coreVars, extNotAalt>>
    \/ aaltEndFeature /\ UNCHANGED <<coreVars, extNotAalt>>
    \/ \E tag \in AaltTags, targ \in AaltTargs, repl \in AaltRepls :
          aaltAddAlternates(tag, targ, repl)
          /\ UNCHANGED <<coreVars, extNotAalt>>
    \/ aaltCreate /\ UNCHANGED <<coreVars, extNotAalt>>

SpecAalt == InitAalt /\ [][NextAalt]_vars

InitLabel ==
    /\ lpc = "new"
    /\ label \in Labels
    /\ labRef = LAB_UNDEF
    /\ labBack = LAB_UNDEF
    /\ CoreConstruct
    /\ MultConstruct /\ AaltConstruct /\ AnchorConstruct /\ ClassConstruct
    /\ TagConstruct /\ StrConstruct /\ BLNDConstruct

NextLabel ==
    \/ makeReference /\ UNCHANGED <<coreVars, extNotLabel>>
    \/ referredLabel /\ UNCHANGED <<coreVars, extNotLabel>>

SpecLabel == InitLabel /\ [][NextLabel]_vars

InitAnchor ==
    /\ kpc = "new"
    /\ lhs \in Anchors
    /\ rhs \in NamedAnchors
    /\ third = AnchorMarkInfo
    /\ less = NoLess
    /\ equal = FALSE
    /\ CoreConstruct
    /\ MultConstruct /\ AaltConstruct /\ LabelConstruct /\ ClassConstruct
    /\ TagConstruct /\ StrConstruct /\ BLNDConstruct

NextAnchor ==
    \/ compareTwo /\ UNCHANGED <<coreVars, extNotAnchor>>
    \/ \E t \in Anchors :
          compareThird(t) /\ UNCHANGED <<coreVars, extNotAnchor>>

SpecAnchor == InitAnchor /\ [][NextAnchor]_vars

InitClass ==
    /\ CoreConstruct
    /\ ExtConstruct

NextClass ==
    \/ \E g \in ClassGIDs :
          ClassRecOfGID(g) /\ UNCHANGED <<coreVars, extNotClass>>
    \/ \E o \in OtherClassRecs :
          ClassRecCopy(o) /\ UNCHANGED <<coreVars, extNotClass>>
    \/ ClassRecReset /\ UNCHANGED <<coreVars, extNotClass>>
    \/ \E g \in ClassGIDs :
          addGlyph(g) /\ UNCHANGED <<coreVars, extNotClass>>
    \/ \E a \in AnchorIds :
          setAnchorInfo(a) /\ UNCHANGED <<coreVars, extNotClass>>
    \/ setGclass /\ UNCHANGED <<coreVars, extNotClass>>
    \/ \E o \in OtherClassRecs :
          ClassRecConcat(o) /\ UNCHANGED <<coreVars, extNotClass>>
    \/ ClassRecSort /\ UNCHANGED <<coreVars, extNotClass>>

SpecClass == InitClass /\ [][NextClass]_vars

InitTag ==
    /\ tagArray \in SUBSET Tags
    /\ tagBefore = {}
    /\ tagArg = TAG_UNDEF
    /\ tagRet = FALSE
    /\ CoreConstruct
    /\ MultConstruct /\ AaltConstruct /\ LabelConstruct /\ AnchorConstruct
    /\ ClassConstruct /\ StrConstruct /\ BLNDConstruct

NextTag ==
    \E t \in Tags : addTag(t) /\ UNCHANGED <<coreVars, extNotTag>>

SpecTag == InitTag /\ [][NextTag]_vars

InitStr ==
    /\ spc = "new"
    /\ \E lead \in 0..MaxLead, n \in 0..(UINT8 - 1) :
          /\ input = FileWith(lead, n)
          /\ start = lead
          /\ filePos = lead
    /\ new = <<>>
    /\ dumped = 0
    /\ CoreConstruct
    /\ MultConstruct /\ AaltConstruct /\ LabelConstruct /\ AnchorConstruct
    /\ ClassConstruct /\ TagConstruct /\ BLNDConstruct

NextStr ==
    \/ readStringCall /\ UNCHANGED <<coreVars, extNotStr>>
    \/ dumpStringCall /\ UNCHANGED <<coreVars, extNotStr>>

SpecStr == InitStr /\ [][NextStr]_vars

InitBlnd ==
    /\ font \in {NoTable} \cup BLNDTables
    /\ BLND = NULL
    /\ loaded = 0
    /\ heap = {}
    /\ badFree = FALSE
    /\ nullDeref = FALSE
    /\ nLoads = 0
    /\ blndOp = "none"
    /\ blndPre = [BLND |-> NULL, loaded |-> 0, heap |-> {}]
    /\ blndDid = {}
    /\ blndRet = 0
    /\ CoreConstruct
    /\ MultConstruct /\ AaltConstruct /\ LabelConstruct /\ AnchorConstruct
    /\ ClassConstruct /\ TagConstruct /\ StrConstruct

NextBlnd ==
    \/ BLNDRead /\ UNCHANGED <<coreVars, extNotBlnd>>
    \/ BLNDFree /\ UNCHANGED <<coreVars, extNotBlnd>>
    \/ BLNDGetNMasters /\ UNCHANGED <<coreVars, extNotBlnd>>

SpecBlnd == InitBlnd /\ [][NextBlnd]_vars

(***************************************************************************)
(* Claims about the driver                                                 *)
(***************************************************************************)
(* C1: when a language statement activates a non-default language inside a
   feature, every lookup registered so far under DFLT/dflt is registered
   again (as a reference) under the new (script, language) if exclude_dflt
   was not given, and with exclude_dflt nothing is registered. *)
C1_DFLTReplay ==
    [][(pc = "feature" /\ pc' = "feature" /\ curr'.language # curr.language
        /\ curr'.language # dflt_)
       => IF include_dflt'
          THEN /\ \A k \in 1..Len(DFLTLkps) :
                     /\ Reg(curr', DFLTLkps[k].label + REF_LAB) \in featReg'
                     /\ IS_REF_LAB(DFLTLkps[k].label + REF_LAB)
               /\ featReg \subseteq featReg'
          ELSE featReg' = featReg]_vars

(* two default lookups have been replayed under a non-default language *)
C1_Witness ==
    /\ pc = "feature"
    /\ curr.language # dflt_
    /\ include_dflt
    /\ Len(DFLTLkps) >= 2
    /\ \A k \in 1..Len(DFLTLkps) :
          Reg(curr, DFLTLkps[k].label + REF_LAB) \in featReg

(* C2: all rules held by the current lookup accumulator share the
   accumulator's table and lookup type. *)
C2_UniformAccumulator ==
    acc.open =>
        \A k \in 1..Len(acc.rules) :
            acc.rules[k].tbl = acc.tbl /\ acc.rules[k].lkpType = acc.lkpType

(* prepRule has closed an accumulator of the same lookup type but of the
   other table, and the rule went into a new one *)
C2_Witness ==
    /\ acc.open
    /\ Len(acc.rules) >= 1
    /\ Len(lookup) >= 1
    /\ lookup[Len(lookup)].nRules >= 1
    /\ lookup[Len(lookup)].tbl # acc.tbl
    /\ lookup[Len(lookup)].lkpType = acc.lkpType
    /\ lookup[Len(lookup)].label + 1 = acc.label

(* C6: had_error is never cleared once set; from then on no rule is appended
   to an accumulator; and the driver goes on visiting statements. *)
C6_ErrorIsSticky ==
    /\ [][had_error => /\ had_error'
                       /\ emitted' = emitted
                       /\ acc'.open => (acc' = acc \/ acc'.rules = <<>>)]_vars
    /\ []((had_error /\ pc # "done" /\ nStmts < MaxStmts) => ENABLED Statement)

(* a rule was appended, then an ERROR was raised, then a valid rule was
   visited and dropped, and the walk went on to its last statement *)
C6_Witness ==
    /\ had_error
    /\ emitted >= 1
    /\ dropped >= 1
    /\ nStmts = MaxStmts

(* C21: at most one lookup accumulator is open at any time: every
   accumulator LookupBegin created is either the one that is open or has
   been handed to LookupEnd exactly once, which compiled it unless an
   error was raised; and `lookup NAME {` closes (compiles) the implicit
   anonymous lookup that is open before the named lookup is opened, so
   that an accumulator open inside the block carries the named label. *)
C21_OneAccumulatorOpen ==
    /\ [](/\ begun = ended + (IF acc.open THEN 1 ELSE 0)
          /\ Len(lookup) <= ended
          /\ ~had_error => Len(lookup) = ended
          /\ (acc.open /\ pc = "lookup") => acc.label = currNamedLkp
          /\ (acc.open /\ pc = "feature") => IS_ANON_LAB(acc.label))
    /\ [][(pc = "feature" /\ pc' = "lookup")
            => /\ ~acc'.open
               /\ currNamedLkp' # LAB_UNDEF
               /\ begun' = begun
               /\ acc.open => /\ ended' = ended + 1
                              /\ ~had_error
                                   => lookup' = Append(lookup, Compiled(acc))]_vars

(* a rule opened an anonymous lookup, `lookup NAME {` closed it, and a
   rule of the block opened the named one *)
C21_Witness ==
    /\ pc = "lookup"
    /\ nStmts = 4
    /\ acc.open
    /\ acc.label = currNamedLkp
    /\ Len(acc.rules) = 1
    /\ Len(lookup) = 1
    /\ IS_ANON_LAB(lookup[1].label)
    /\ lookup[1].nRules = 1
    /\ begun = 2
    /\ ended = 1

(***************************************************************************)
(* Claims about anonymous sub-lookups and label resolution                 *)
(***************************************************************************)
(* the (target, replacement) pairs a Single sub-rule asks for *)
PairsOf(pMarked, repl) ==
    {<<pMarked[1][k],
       repl[1][IF k <= Len(repl[1]) THEN k ELSE Len(repl[1])]>> :
        k \in 1..Len(pMarked[1])}

(* the target sequences a Ligature sub-rule stands for *)
SeqsOf(pMarked) ==
    {t \in [1..Len(pMarked) -> 1..NumGlyphs] :
        \A k \in 1..Len(pMarked) :
            \E j \in 1..Len(pMarked[k]) : t[k] = pMarked[k][j]}

(* s is a proper prefix of t *)
IsPrefix(s, t) == Len(s) < Len(t) /\ SubSeq(t, 1, Len(s)) = s

(* what a sub-rule is: one marked glyph by one glyph is Single, one marked
   glyph by several is Multiple, several marked glyphs is Ligature *)
KindOf(in) ==
    IF Len(in.pMarked) > 1 THEN "Ligature"
    ELSE IF Len(in.repl) > 1 THEN "Multiple" ELSE "Single"

KindOfType(lkpType) ==
    IF lkpType = GSUBSingle THEN "Single"
    ELSE IF lkpType = GSUBLigature THEN "Ligature"
    ELSE IF lkpType = GSUBMultiple THEN "Multiple" ELSE "other"

(* the sub-rule conflicts with what accumulator si holds *)
ConflictsWith(si, in) ==
    \/ /\ KindOf(in) = "Single"
       /\ \E p \in PairsOf(in.pMarked, in.repl), q \in si.singles :
             p[1] = q[1] /\ p[2] # q[2]
    \/ /\ KindOf(in) = "Ligature"
       /\ \E t \in SeqsOf(in.pMarked), k \in 1..Len(si.rules) :
             \/ (t = si.rules[k].targ /\ in.repl[1][1] # si.rules[k].repl)
             \/ IsPrefix(t, si.rules[k].targ)
             \/ IsPrefix(si.rules[k].targ, t)

(* lkpType, lkpFlag, markSetIndex and parentFeatTag of si are those of the
   sub-rule *)
FieldsMatch(si, in) ==
    /\ KindOfType(si.lkpType) = KindOf(in)
    /\ si.lkpFlag = in.cur_si.lkpFlag
    /\ si.markSetIndex = in.cur_si.markSetIndex
    /\ si.parentFeatTag = in.cur_si.feature

(* accumulator si holds what the sub-rule asks for *)
Holds(si, in) ==
    /\ KindOf(in) = "Single" =>
          \A k \in 1..Len(in.pMarked[1]) :
              \E p \in si.singles \cap PairsOf(in.pMarked, in.repl) :
                  p[1] = in.pMarked[1][k]
    /\ KindOf(in) = "Ligature" =>
          \A t \in SeqsOf(in.pMarked) :
              \E k \in 1..Len(si.rules) :
                  si.rules[k] = [targ |-> t, repl |-> in.repl[1][1]]
    /\ KindOf(in) = "Multiple" =>
          \E k \in 1..Len(si.rules) :
              si.rules[k] = [targ |-> in.pMarked, repl |-> in.repl]

(* the sub-rule went into the last accumulator, under its label *)
WentIntoLast ==
    LET n == Len(anonSubtable)
    IN  /\ Len(anonSubtable') = n
        /\ \A k \in 1..(n - 1) : anonSubtable'[k] = anonSubtable[k]
        /\ anonSubtable'[n].label = anonSubtable[n].label
        /\ FieldsMatch(anonSubtable'[n], lastIn')
        /\ Holds(anonSubtable'[n], lastIn')
        /\ lastIn'.label = anonSubtable[n].label
        /\ lookupRecs' = Append(lookupRecs, lastIn'.label)
        /\ anonLabelCnt' = anonLabelCnt

(* a new accumulator was started under the next unused anonymous label *)
WentIntoNew ==
    LET n == Len(anonSubtable)
    IN  /\ Len(anonSubtable') = n + 1
        /\ SubSeq(anonSubtable', 1, n) = anonSubtable
        /\ anonSubtable'[n + 1].label = anonLabelCnt
        /\ IS_ANON_LAB(anonLabelCnt) /\ ~IS_REF_LAB(anonLabelCnt)
        /\ \A k \in 1..n : anonSubtable[k].label < anonLabelCnt
        /\ FieldsMatch(anonSubtable'[n + 1], lastIn')
        /\ Holds(anonSubtable'[n + 1], lastIn')
        /\ lastIn'.label = anonLabelCnt
        /\ lookupRecs' = Append(lookupRecs, lastIn'.label)
        /\ anonLabelCnt' = anonLabelCnt + 1

(* a chain rule with an inline replacement has been compiled in this step *)
InlineCompiled ==
    /\ nChain' = nChain + 1
    /\ lastIn'.label # LAB_UNDEF
    /\ lastIn'.at = nChain'

(* C3 as stated: the sub-rule of a chain rule with an inline replacement
   goes into the most recently created anonymous accumulator, under that
   accumulator's label, exactly when lkpType, lkpFlag, markSetIndex and
   parentFeatTag match and it conflicts with nothing there; in every other
   case a new accumulator is started under the next unused anonymous
   label. *)
C3_AppendIffFits ==
    [][InlineCompiled =>
        LET n == Len(anonSubtable)
        IN  IF /\ n > 0
               /\ FieldsMatch(anonSubtable[n], lastIn')
               /\ ~ConflictsWith(anonSubtable[n], lastIn')
            THEN WentIntoLast
            ELSE WentIntoNew]_vars

(* C3 amended: the sub-rule goes into the most recently created anonymous
   accumulator, under that accumulator's label, exactly when it is a Single
   or a Ligature substitution, lkpType, lkpFlag, markSetIndex and
   parentFeatTag match and it conflicts with nothing there; in every other
   case, a Multiple substitution (one marked glyph replaced by several)
   among them, a new accumulator is started under the next unused anonymous
   label. *)
C3_AppendIffFitsSingleOrLigature ==
    [][InlineCompiled =>
        LET n == Len(anonSubtable)
        IN  IF /\ n > 0
               /\ KindOf(lastIn') \in {"Single", "Ligature"}
               /\ FieldsMatch(anonSubtable[n], lastIn')
               /\ ~ConflictsWith(anonSubtable[n], lastIn')
            THEN WentIntoLast
            ELSE WentIntoNew]_vars

(* a Multiple sub-rule met a Multiple accumulator with the same fields and a
   new accumulator was started; before that a Single sub-rule went into the
   accumulator of another Single sub-rule *)
C3_Witness ==
    /\ Len(anonSubtable) = 3
    /\ anonSubtable[1].lkpType = GSUBSingle
    /\ Cardinality(anonSubtable[1].singles) >= 2
    /\ anonSubtable[2].lkpType = GSUBMultiple
    /\ anonSubtable[3].lkpType = GSUBMultiple
    /\ anonSubtable[3].lkpFlag = anonSubtable[2].lkpFlag
    /\ anonSubtable[3].markSetIndex = anonSubtable[2].markSetIndex
    /\ anonSubtable[3].parentFeatTag = anonSubtable[2].parentFeatTag
    /\ lastIn.label = anonSubtable[3].label
    /\ anonSubtable[3].label = FEAT_ANON_LKP_BEG + 2

(* C4: no anonymous accumulator is in conflict: a Single one never maps one
   target GID to two different replacement GIDs, a Ligature one never holds
   a target sequence with two different replacements nor two target
   sequences one of which is a prefix of the other. *)
C4_NoConflict ==
    \A a \in 1..Len(anonSubtable) :
        LET si == anonSubtable[a]
        IN  /\ si.lkpType = GSUBSingle =>
                  \A p, q \in si.singles : p[1] = q[1] => p[2] = q[2]
            /\ si.lkpType = GSUBLigature =>
                  \A i, j \in 1..Len(si.rules) :
                      /\ si.rules[i].targ = si.rules[j].targ
                            => si.rules[i].repl = si.rules[j].repl
                      /\ ~IsPrefix(si.rules[i].targ, si.rules[j].targ)

(* a ligature sub-rule whose target has a target of the last accumulator as
   a prefix went into a new accumulator with the same fields *)
C4_Witness ==
    /\ Len(anonSubtable) = 2
    /\ anonSubtable[1].lkpType = GSUBLigature
    /\ anonSubtable[2].lkpType = GSUBLigature
    /\ Len(anonSubtable[1].rules) >= 2
    /\ anonSubtable[1].parentFeatTag = anonSubtable[2].parentFeatTag
    /\ anonSubtable[1].lkpFlag = anonSubtable[2].lkpFlag
    /\ anonSubtable[1].markSetIndex = anonSubtable[2].markSetIndex
    /\ \E k \in 1..Len(anonSubtable[1].rules) :
          IsPrefix(anonSubtable[1].rules[k].targ, anonSubtable[2].rules[1].targ)

(* record k refers to a named lookup the feature file never defines *)
RefersToUndefined(k) ==
    /\ IS_NAMED_LAB(lookupRecs[k])
    /\ \A j \in 1..Len(namedLkp) : namedLkp[j] # lookupRecs[k]

(* C5: after compilation and label resolution every lookup record of a
   contextual rule holds the index of a lookup of the LookupList, the one
   that carries the record's label, and every anonymous accumulator is a
   lookup of the list; a compile in which some label is referred to but
   never defined ends in a fatal error, with no record resolved, and no
   other compile does. *)
C5_LabelsResolve ==
    /\ cpc = "done" =>
          /\ Len(lookupIndex) = Len(lookupRecs)
          /\ \A k \in 1..Len(lookupRecs) :
                /\ lookupIndex[k] \in 0..(Len(lookupList) - 1)
                /\ lookupList[lookupIndex[k] + 1] = lookupRecs[k]
          /\ \A a \in 1..Len(anonSubtable) :
                \E k \in 1..Len(lookupList) :
                    lookupList[k] = anonSubtable[a].label
    /\ cpc = "fatalRef" => lookupIndex = <<>>
    /\ cpc \in {"done", "fatalRef"} =>
          (cpc = "fatalRef" <=>
              \E k \in 1..Len(lookupRecs) : RefersToUndefined(k))

(* records of an anonymous and of a named lookup have been resolved *)
C5_Witness ==
    /\ cpc = "done"
    /\ \E k \in 1..Len(lookupRecs) :
          IS_ANON_LAB(lookupRecs[k]) /\ lookupIndex[k] >= 1
    /\ \E k \in 1..Len(lookupRecs) : IS_NAMED_LAB(lookupRecs[k])

(***************************************************************************)
(* Claims about mark classes                                               *)
(***************************************************************************)
(* C7: once the used_mark_class flag of a mark class is set, the glyph list
   of the class never changes again, and every later statement that adds a
   glyph to it is rejected as an error. *)
C7_UsedMarkClassFrozen ==
    [][\A n \in DOMAIN namedGlyphClasses :
          namedGlyphClasses[n].used_mark_class =>
              /\ n \in DOMAIN namedGlyphClasses'
              /\ namedGlyphClasses'[n].used_mark_class
              /\ namedGlyphClasses'[n].glyphs = namedGlyphClasses[n].glyphs
              /\ (lastMark'.at = nMark + 1 /\ lastMark'.name = n) =>
                    (lastMark'.outcome = "error" /\ had_error')]_vars

(* a glyph was offered to a class after its use in a position rule, and the
   class still holds what it held *)
C7_Witness ==
    /\ lastMark.outcome = "error"
    /\ lastMark.at = nMark
    /\ had_error
    /\ namedGlyphClasses[lastMark.name].used_mark_class
    /\ Len(namedGlyphClasses[lastMark.name].glyphs) = 3

(***************************************************************************)
(* Claims about Single substitution                                        *)
(***************************************************************************)
(* C10: a Single-substitution subtable is in Format 1 exactly when
   replGID - targGID is the same for every pair it holds, and then that
   difference is its delta; when two pairs differ in it the subtable is in
   Format 2. *)
C10_Format1IffOneDelta ==
    singleFormat # 0 =>
        LET same == \A p, q \in singles : p[2] - p[1] = q[2] - q[1]
        IN  /\ singleFormat \in {1, 2}
            /\ singleFormat = 1 <=> same
            /\ singleFormat = 1 =>
                  \A p \in singles : p[2] = p[1] + singleDelta

(* three pairs, the first and the last with one delta and the middle one
   with another: Format 2 *)
C10_Witness ==
    /\ singleFormat = 2
    /\ {p[1] : p \in singles} = {1, 2, 3}
    /\ MapAt(singles, 1) - 1 = MapAt(singles, 3) - 3
    /\ MapAt(singles, 2) - 2 # MapAt(singles, 1) - 1

(***************************************************************************)
(* Claims about CrossProductIterator                                       *)
(***************************************************************************)
AllZero(idx) == \A k \in 1..Len(idx) : idx[k] = 0

(* a before b, comparing position by position from the first class *)
LexLess(a, b) ==
    \E k \in 1..Len(a) : a[k] < b[k] /\ \A j \in 1..(k - 1) : a[j] = b[j]

(* a before b, comparing position by position from the last class *)
ColexLess(a, b) ==
    \E k \in 1..Len(a) : a[k] < b[k] /\ \A j \in (k + 1)..Len(a) : a[j] = b[j]

(* C8 as stated: two successive calls of next() that both yield a tuple yield
   index tuples in strictly increasing lexicographic order compared from the
   first class on, and the first tuple yielded is all zeros. *)
C8_LexFromFirstClass ==
    [][ret' = "true" =>
        /\ (ret = "none" => AllZero(yielded'))
        /\ (ret = "true" => LexLess(yielded, yielded'))]_vars

(* C8 amended: two successive calls of next() that both yield a tuple yield
   index tuples in strictly increasing order when compared position by
   position from the LAST class on (the index of the first class varies
   fastest), and the first tuple yielded is all zeros. *)
C8_ColexOrder ==
    [][ret' = "true" =>
        /\ (ret = "none" => AllZero(yielded'))
        /\ (ret = "true" => ColexLess(yielded, yielded'))]_vars

(* a carry has happened: the first index went back to 0 while the second
   moved on *)
C8_Witness ==
    /\ ret = "true"
    /\ Len(classes) >= 2
    /\ Len(classes[1]) >= 2
    /\ yielded[1] = 0
    /\ yielded[2] = 1

(* the product of the sizes of the classes *)
RECURSIVE SizeProduct(_)
SizeProduct(cls) ==
    IF cls = <<>> THEN 1 ELSE Len(Head(cls)) * SizeProduct(Tail(cls))

(* every index combination of the classes *)
AllIndexTuples ==
    {t \in [1..Len(classes) -> 0..(MaxClassSize - 1)] :
        \A k \in 1..Len(classes) : t[k] < Len(classes[k])}

(* C26: for non-empty classes of sizes s0..sn-1 the calls of next() that
   return true before the first false are s0*s1*...*sn-1 in number and
   yield every index combination exactly once. *)
C26_EveryTupleOnce ==
    /\ ~repeated
    /\ nTrue = Cardinality(seen)
    /\ nTrue <= SizeProduct(classes)
    /\ sawFalse
          => /\ nTrue = SizeProduct(classes)
             /\ AllIndexTuples \subseteq seen

(* three classes of three, two and three glyphs were run through: 18
   calls returned true, then one returned false *)
C26_Witness ==
    /\ sawFalse
    /\ Len(classes) = 3
    /\ Len(classes[1]) = 3
    /\ Len(classes[2]) = 2
    /\ Len(classes[3]) = 3
    /\ nTrue = 18

(* C9: once next() has returned false, every later call returns false too
   and yields no tuple. *)
C9_StaysExhausted ==
    [][ret = "false" => (ret' = "false" /\ gids' = gids)]_vars
(***************************************************************************)
(* Claims about Multiple and Alternate subtables                           *)
(***************************************************************************)
(* the bytes of a subtable made of rules beg..end (as the code counts
   them, from 0), summed rule by rule *)
RECURSIVE BytesOf(_, _)
BytesOf(beg, end) ==
    IF end < beg THEN 6
    ELSE BytesOf(beg, end - 1) + 4 + 2 * altRules[end + 1].n

(* C11: the rules of a Multiple or Alternate lookup, sorted by target, are
   cut into subtables in order: a subtable begins where the one before it
   ended, no emitted subtable is larger than 0xFFFF bytes, a subtable ends
   before a rule only if that rule would take it past 0xFFFF, that rule is
   the first of the next subtable, and the last subtable ends with the
   last rule. *)
C11_BreakAtOverflow ==
    /\ \A k \in DOMAIN altSubtables :
          LET s == altSubtables[k]
          IN  /\ s.beg = IF k = 1 THEN 0 ELSE altSubtables[k - 1].end + 1
              /\ BytesOf(s.beg, s.end) <= OffsetMax
              /\ s.end < Len(altRules) - 1
                    => BytesOf(s.beg, s.end + 1) > OffsetMax
    /\ \A k \in 1..Len(altRules) - 1 :
          altSubtables # <<>> => altRules[k].targ <= altRules[k + 1].targ
    /\ (fpc = "done" /\ altSubtables # <<>>)
          => altSubtables[Len(altSubtables)].end = Len(altRules) - 1

(* two rules that together come to 0x10000 bytes were cut into two
   subtables of one rule each *)
C11_Witness ==
    /\ fpc = "done"
    /\ Len(altRules) = 2
    /\ BytesOf(0, 1) = OffsetMax + 1
    /\ Len(altSubtables) = 2
    /\ altSubtables[1].end = 0
    /\ altSubtables[2].beg = 1
    /\ altSubtables[2].end = 1

(***************************************************************************)
(* Claims about the aalt feature                                           *)
(***************************************************************************)
(* the log entries that were harvested: those of a feature aalt lists *)
HarvestedAt(g) ==
    {k \in DOMAIN aaltLog :
        aaltLog[k].targ = g /\ aaltIndexOf(aaltLog[k].feature) # 0}

(* the replacement glyphs harvested for target g *)
Harvested(g) ==
    UNION {{aaltLog[k].repl[n] : n \in DOMAIN aaltLog[k].repl} :
           k \in HarvestedAt(g)}

(* C12: the lookup synthesized for aalt is of kind Single if and only if,
   the harvested rules being merged by target GID and identical
   replacements collapsed, every target has exactly one replacement glyph;
   otherwise it is of kind Alternate. *)
C12_SingleIffOneEach ==
    (apc = "created" /\ aaltKind # 0)
        => /\ aaltKind \in {GSUBSingle, GSUBAlternate}
           /\ aaltKind = GSUBSingle
                 <=> \A g \in AaltTargs :
                        Harvested(g) # {} => Cardinality(Harvested(g)) = 1

(* a Single aalt lookup whose one target was given the same replacement by
   two listed features *)
C12_Witness ==
    /\ apc = "created"
    /\ aaltKind = GSUBSingle
    /\ \E g \in AaltTargs :
          \E k, m \in HarvestedAt(g) :
             /\ aaltLog[k].feature # aaltLog[m].feature
             /\ aaltLog[k].repl = aaltLog[m].repl
             /\ Len(aaltLookup[g]) = 1

(* where replacement r of target g was first harvested: the index of the
   feature in the aalt list, the rule, the place in the rule's class *)
FirstAt(g, r) ==
    LET k == CHOOSE k \in HarvestedAt(g) :
                 /\ \E n \in DOMAIN aaltLog[k].repl : aaltLog[k].repl[n] = r
                 /\ \A m \in HarvestedAt(g) :
                       (\E n \in DOMAIN aaltLog[m].repl :
                           aaltLog[m].repl[n] = r) => k <= m
        n == CHOOSE n \in DOMAIN aaltLog[k].repl : aaltLog[k].repl[n] = r
    IN  <<aaltIndexOf(aaltLog[k].feature), k, n>>

(* C13: in the aalt lookup the alternates of a target are those harvested
   for it, each once, in authoring order: an alternate drawn from a
   feature listed earlier in the aalt block comes before one drawn from a
   feature listed later, and alternates of one feature keep the order of
   their rules. *)
C13_AuthoringOrder ==
    apc = "created"
        => \A g \in AaltTargs :
              LET alts == aaltLookup[g]
              IN  /\ {alts[k] : k \in DOMAIN alts} = Harvested(g)
                  /\ \A p, q \in DOMAIN alts :
                        p < q =>
                           LET a == FirstAt(g, alts[p])
                               b == FirstAt(g, alts[q])
                           IN  /\ alts[p] # alts[q]
                               /\ a[1] <= b[1]
                               /\ a[1] = b[1]
                                     => (a[2] < b[2]
                                         \/ (a[2] = b[2] /\ a[3] < b[3]))

(* the alternate of the feature listed first comes first although it was
   harvested after that of the feature listed second *)
C13_Witness ==
    /\ apc = "created"
    /\ \E g \in AaltTargs :
          /\ Len(aaltLookup[g]) >= 2
          /\ FirstAt(g, aaltLookup[g][1])[1] < FirstAt(g, aaltLookup[g][2])[1]
          /\ FirstAt(g, aaltLookup[g][1])[2] > FirstAt(g, aaltLookup[g][2])[2]

(***************************************************************************)
(* Claims about labels                                                     *)
(***************************************************************************)
(* C14: the label ranges are disjoint for every 16-bit Label: with the
   reference bit cleared, 0..0x1FFF is named and not anonymous,
   0x2000..0x7FFE is anonymous and not named, and LAB_UNDEF is neither
   named nor anonymous nor a reference. *)
C14_RangesDisjoint ==
    /\ label \in Labels
    /\ ClearRef(label) \in 0..8191
          => (IS_NAMED_LAB(label) /\ ~IS_ANON_LAB(label))
    /\ ClearRef(label) \in 8192..32766
          => (IS_ANON_LAB(label) /\ ~IS_NAMED_LAB(label))
    /\ ~(IS_NAMED_LAB(label) /\ IS_ANON_LAB(label))
    /\ label = 65535
          => (~IS_NAMED_LAB(label) /\ ~IS_ANON_LAB(label) /\ ~IS_REF_LAB(label))

(* a reference to the first anonymous label was classified *)
C14_Witness ==
    /\ lpc = "back"
    /\ label = 8192 + 32768
    /\ IS_ANON_LAB(label)
    /\ labBack = 8192

(* C15: reference encoding round-trips: for every label L in 0..0x7FFE,
   L | REF_LAB is a reference, is not LAB_UNDEF, is named or anonymous as
   L is, and gives L back when bit 15 is cleared; and no label with bit 15
   clear is a reference. *)
C15_ReferenceRoundTrip ==
    /\ (lpc \in {"ref", "back"} /\ label \in 0..32766)
          => /\ IS_REF_LAB(labRef)
             /\ labRef # 65535
             /\ IS_NAMED_LAB(labRef) <=> IS_NAMED_LAB(label)
             /\ IS_ANON_LAB(labRef) <=> IS_ANON_LAB(label)
    /\ (lpc = "back" /\ label \in 0..32766) => labBack = label
    /\ label < 32768 => ~IS_REF_LAB(label)
    /\ (lpc = "back" /\ labBack < 32768) => ~IS_REF_LAB(labBack)

(* the last anonymous label went to a reference and back *)
C15_Witness ==
    /\ lpc = "back"
    /\ label = 32766
    /\ labRef = 65534
    /\ labBack = 32766

(***************************************************************************)
(* Claims about AnchorMarkInfo                                             *)
(***************************************************************************)
(* the members operator< is said to be keyed on *)
SixFields(a) ==
    <<a.componentIndex, a.markClassIndex, a.format, a.x, a.y, a.contourpoint>>

(* the same with contourpoint counted for format 2 only *)
KeyFields(a) ==
    <<a.componentIndex, a.markClassIndex, a.format, a.x, a.y,
      IF a.format = 2 THEN a.contourpoint ELSE 0>>

(* a < a never holds, and a < b with b < c gives a < c *)
StrictAndTransitive ==
    /\ kpc \in {"two", "three"} => ~less["ll"]
    /\ kpc = "three" => ((less["lr"] /\ less["rt"]) => less["lt"])

(* C16 as stated: operator< is irreflexive and transitive, and two anchors
   that differ in at least one of componentIndex, markClassIndex, format,
   x, y, contourpoint are ordered: exactly one of a<b and b<a holds. *)
C16_TotalOnSixFields ==
    /\ StrictAndTransitive
    /\ (kpc \in {"two", "three"} /\ SixFields(lhs) # SixFields(rhs))
          => (less["lr"] # less["rl"])

(* C16, amended: operator< is irreflexive and transitive; exactly one of
   a<b and b<a holds for two anchors that differ in componentIndex,
   markClassIndex, format, x or y, or in contourpoint when their format is
   2, and neither holds for any other two anchors. *)
C16_TotalOnKeyFields ==
    /\ StrictAndTransitive
    /\ kpc \in {"two", "three"}
          => /\ KeyFields(lhs) # KeyFields(rhs) => (less["lr"] # less["rl"])
             /\ KeyFields(lhs) = KeyFields(rhs)
                   => (~less["lr"] /\ ~less["rl"])

(* three anchors in ascending order that differ in y, in x and, with
   format 2, in contourpoint *)
C16_Witness ==
    /\ kpc = "three"
    /\ less["lr"] /\ less["rt"] /\ less["lt"]
    /\ lhs.format = 2 /\ rhs.format = 2 /\ third.format = 2
    /\ lhs.componentIndex = third.componentIndex
    /\ lhs.markClassIndex = third.markClassIndex
    /\ lhs.x = rhs.x /\ lhs.y = rhs.y
    /\ lhs.contourpoint < rhs.contourpoint
    /\ rhs.x = third.x /\ rhs.y < third.y

(* C17 as stated: two anchors compare equal with operator== if and only if
   format, x, y, markClassIndex, componentIndex and markClassName match,
   and contourpoint too when (and only when) format is 2. *)
C17_EqualIffAllMatch ==
    kpc \in {"two", "three"}
        => (equal <=> /\ KeyFields(lhs) = KeyFields(rhs)
                      /\ lhs.markClassName = rhs.markClassName)

(* C17, amended: two anchors compare equal with operator== if and only if
   format, x, y, markClassIndex and componentIndex match, and contourpoint
   too when (and only when) format is 2; markClassName is not compared. *)
C17_EqualIffKeyMatch ==
    kpc \in {"two", "three"}
        => (equal <=> KeyFields(lhs) = KeyFields(rhs))

(* two anchors of format 1 that differ in contourpoint and in the name of
   the mark class compared equal *)
C17_Witness ==
    /\ kpc = "two"
    /\ equal
    /\ lhs.format = 1
    /\ lhs.contourpoint # rhs.contourpoint
    /\ lhs.markClassName # rhs.markClassName

(* C28: ordering and equality of AnchorMarkInfo agree: a == b holds if and
   only if neither a < b nor b < a holds, so a sorted or deduplicated
   container takes two anchors for duplicates exactly when operator==
   does. *)
C28_EqualIffUnordered ==
    kpc \in {"two", "three"} => (equal <=> (~less["lr"] /\ ~less["rl"]))

(* two anchors that differ in the name of the mark class, and in
   contourpoint with a format other than 2: equal and not ordered *)
C28_Witness ==
    /\ kpc = "three"
    /\ lhs.format # 2
    /\ lhs.contourpoint # rhs.contourpoint
    /\ rhs.markClassName # ""
    /\ equal
    /\ ~less["lr"]
    /\ ~less["rl"]

(***************************************************************************)
(* Claims about GPat::ClassRec                                             *)
(***************************************************************************)
(* the records of glyphs by ascending gid, those of one gid in the order
   they have in glyphs *)
RECURSIVE StableByGid(_, _)
StableByGid(glyphs, upTo) ==
    IF upTo = 0 THEN <<>>
    ELSE StableByGid(glyphs, upTo - 1)
         \o SelectSeq(glyphs, LAMBDA r : r.gid = upTo)

(* C18: ClassRec::sort orders the glyph records by ascending GID and is
   stable: two glyph records with the same GID (carrying different anchor
   info, say) keep the relative order they had before the sort. *)
C18_SortStable ==
    crOp = "sort" => crec.glyphs = StableByGid(crBefore, 2)

(* C19: in every state of a ClassRec reached through its constructors,
   addGlyph, concat, reset and copy/assignment, is_glyph() holds exactly
   when glyphs.size() == 1 and gclass is false, is_class() holds exactly
   when glyphs.size() > 1 or gclass is true, and the two are never true
   together. *)
C19_GlyphXorClass ==
    /\ crIsGlyph <=> (Len(crec.glyphs) = 1 /\ crec.gclass = FALSE)
    /\ crIsClass <=> (Len(crec.glyphs) > 1 \/ crec.gclass = TRUE)
    /\ ~(crIsGlyph /\ crIsClass)

(* a class record of one glyph that was written as a class: a class, not
   a glyph *)
C19_Witness ==
    /\ Len(crec.glyphs) = 1
    /\ crec.gclass
    /\ crOp \in {"copy", "gclass", "concat"}
    /\ crIsClass
    /\ ~crIsGlyph

(***************************************************************************)
(* Claims about the compilation of anonymous accumulators                  *)
(***************************************************************************)
(* the places of the lookup list at which label L was compiled *)
CompiledAt(L) == {k \in DOMAIN lookupList : lookupList[k] = L}

(* C20: every anonymous accumulator made by the compilation of contextual
   rules is compiled exactly once, and only after every user lookup has
   been closed: none is compiled while rules are still being taken, none
   comes before a user lookup in the lookup list, and none is left
   uncompiled when the compile ends without a fatal error. *)
C20_AnonCompiledOnceAtEnd ==
    /\ cpc = "compile"
          => \A k \in DOMAIN lookupList : ~IS_ANON_LAB(lookupList[k])
    /\ \A p, q \in DOMAIN lookupList :
          (p < q /\ IS_ANON_LAB(lookupList[p])) => IS_ANON_LAB(lookupList[q])
    /\ \A n, m \in DOMAIN anonSubtable :
          anonSubtable[n].label = anonSubtable[m].label => n = m
    /\ \A n \in DOMAIN anonSubtable :
          /\ IS_ANON_LAB(anonSubtable[n].label)
          /\ Cardinality(CompiledAt(anonSubtable[n].label)) <= 1
          /\ (cpc = "done" /\ ~had_error)
                => Cardinality(CompiledAt(anonSubtable[n].label)) = 1

(* two anonymous accumulators and a named lookup; the compile ended and
   both accumulators were compiled after the named lookup *)
C20_Witness ==
    /\ cpc = "done"
    /\ Len(anonSubtable) >= 2
    /\ Len(namedLkp) >= 1
    /\ \A n \in DOMAIN anonSubtable :
          \E k \in DOMAIN lookupList :
             /\ lookupList[k] = anonSubtable[n].label
             /\ \A j \in DOMAIN lookupList :
                   IS_NAMED_LAB(lookupList[j]) => j < k

(***************************************************************************)
(* Claims about FeatCtx::addTag                                            *)
(***************************************************************************)
(* C27: after a call addTag(a, t) the tag t is a member of a (a tag seen
   for the first time is registered), and the call returns true exactly
   when it changed the set. *)
C27_TagRegistered ==
    tagArg # TAG_UNDEF
        => /\ tagArg \in tagArray
           /\ tagRet <=> tagArray # tagBefore

(***************************************************************************)
(* Claims about BLND.c readString                                          *)
(***************************************************************************)
(* C29: readString pads every Pascal string to an even boundary: for a
   length byte n it consumes 1 + n bytes, and one pad byte more exactly
   when n is even, so that the number of bytes consumed is even; the
   buffer it returns holds the n bytes followed by a terminating 0.
   dumpString steps over the same bytes. *)
C29_PaddedToEven ==
    spc # "new" =>
        LET n == input[start + 1]
            consumed == filePos - start
        IN /\ consumed = 1 + n + (IF n % 2 = 0 THEN 1 ELSE 0)
           /\ consumed % 2 = 0
           /\ Len(new) = n + 1
           /\ \A k \in 1..n : new[k] = input[start + 1 + k]
           /\ new[n + 1] = 0
           /\ spc = "dumped" => dumped = filePos

C29_Witness ==
    /\ spc = "dumped"
    /\ input[start + 1] = 4
    /\ filePos - start = 6
    /\ new = <<11, 18, 25, 32, 0>>

(***************************************************************************)
(* Claims about the BLND table                                             *)
(***************************************************************************)
(* C22: BLNDGetNMasters returns 1 when no table is loaded and the font
   has none to read (sfntReadTable returns nonzero), and BLND is not
   dereferenced and stays as it was; in every other case it returns the
   nMasters of the loaded table. *)
C22_OneWithoutTable ==
    blndOp = "BLNDGetNMasters" =>
        /\ ~nullDeref
        /\ IF blndPre.loaded = 0 /\ font = NoTable
           THEN blndRet = 1 /\ BLND = NULL /\ loaded = 0
           ELSE BLND # NULL /\ blndRet = BLND.nMasters

C22_Witness ==
    /\ blndOp = "BLNDGetNMasters"
    /\ font = NoTable
    /\ blndPre.loaded = 0
    /\ blndRet = 1

(* C23: after BLNDRead and then BLNDFree every block that BLNDRead
   allocated has been freed exactly once: no block is left allocated and
   none was freed twice. *)
C23_AllocationBalanced ==
    (blndOp = "BLNDFree" /\ "free" \in blndDid) => heap = {} /\ ~badFree

(* C24: at every call boundary loaded is 1 exactly when BLND is not null,
   and no call has dereferenced a null BLND. *)
C24_LoadedIffTable ==
    /\ loaded \in {0, 1}
    /\ loaded = 1 <=> BLND # NULL
    /\ ~nullDeref

C24_Witness ==
    /\ blndOp = "BLNDFree"
    /\ "free" \in blndDid
    /\ blndPre.loaded = 1
    /\ nLoads = 1
    /\ loaded = 0
    /\ BLND = NULL

(* C25: BLNDRead called while a table is loaded and BLNDFree called while
   none is loaded change nothing: no read, no allocation, no free, BLND
   and loaded as before. *)
C25_NothingInWrongState ==
    (\/ blndOp = "BLNDRead" /\ blndPre.loaded # 0
     \/ blndOp = "BLNDFree" /\ blndPre.loaded = 0)
        => /\ blndDid = {}
           /\ BLND = blndPre.BLND
           /\ loaded = blndPre.loaded
           /\ heap = blndPre.heap

C25_Witness ==
    /\ blndOp = "BLNDRead"
    /\ blndPre.loaded = 1
    /\ blndPre.BLND.nAxes = 2
    /\ nLoads = 1
    /\ BLND = blndPre.BLND

(* C30: BLNDRead reads the d2wv header and subroutines, and BLNDFree
   frees subroutines, only for a table of a version above 2 whose
   d2wvOffset is not 0; for a table of version 2 or lower neither
   happens. *)
C30_D2wvOnlyWhenCarried ==
    ({"d2wvRead", "d2wvFree"} \cap blndDid # {})
        => font.version > 2 /\ font.d2wvOffset # 0

====
